---- MODULE Spec2Model ----
(***************************************************************************)
(* A model of the SAM-BA host driver of at-enka: the byte transport        *)
(* (src/atenka/port.py, class Port) and the protocol driver                *)
(* (src/atenka/samba.py, class Samba), run against a simulated SAM-BA      *)
(* monitor that executes the command frames of the wire format.            *)
(*                                                                         *)
(* Representation.                                                         *)
(*   - Everything that crosses the serial line is a sequence of bytes      *)
(*     (0..255); command text is the sequence of its ASCII codes.          *)
(*   - A Python integer (an address, a value) is the normalised sequence   *)
(*     of its base-256 digits, least significant first (<<>> is 0): the    *)
(*     program's integers are unbounded and its addresses and values use   *)
(*     all 32 bits, which the integers of TLC do not hold.  Lengths       *)
(*     and counts are small and stay ordinary integers.                    *)
(*   - One action is one call of a public method of Samba, from its first  *)
(*     statement to its return or to the exception that leaves it.  `log`  *)
(*     is the list of calls that method made on its Port, `res` what it    *)
(*     returned or raised, `op` the call and its arguments.  A call of     *)
(*     Port.close or of a destructor is one action as well.                *)
(*   - The Port object carries its `opened` flag; the serial device behind *)
(*     it is open, closed, or was never opened, and counts the times it    *)
(*     was closed.                                                         *)
(***************************************************************************)
EXTENDS Integers, Sequences, FiniteSets, TLC

VARIABLES
    mem,            \* target: memory, address -> byte (addresses written so far)
    pending,        \* target: an S command waits for its payload
    rx,             \* Port._port: bytes the target sent that no read consumed yet
    interactive,    \* Samba._interactive
    hostBigEndian,  \* byte order of the host, used by struct's native formats
    op,             \* the last call of a Samba method and its arguments
    res,            \* what that call returned or raised
    log,            \* the calls it made on Port, in order
    nops,           \* number of calls made so far
    opened,         \* Port.opened
    device,         \* the serial device: "open", "closed", "none" (open failed)
    closes,         \* number of times the serial device was closed
    ncloses,        \* number of calls of Port.close, Port.__del__, Samba.__del__
    life,           \* the objects not yet destroyed, among "samba" and "port"
    main,           \* the run of main of atenka-cl.py: its position and locals
    sing            \* threads inside SingletonBase.__new__, the lock, the instances

vars == <<mem, pending, rx, interactive, hostBigEndian, op, res, log, nops,
          opened, device, closes, ncloses, life, main, sing>>

(***************************************************************************)
(* Bounds of the model.  MAX_PAYLOAD is the chunk size of samba.py:36,     *)
(* which is 4000 there; the model runs the same arithmetic on a small      *)
(* chunk size so that transfers of several chunks stay checkable.          *)
(***************************************************************************)
MAX_PAYLOAD == 4
MaxOps == 2
\* Calls of Port.close and of the destructors in one run.
MaxCloses == 3

Min(a, b) == IF a < b THEN a ELSE b
Max(a, b) == IF a > b THEN a ELSE b

(***************************************************************************)
(* Python integers as base-256 digit sequences, least significant first.   *)
(***************************************************************************)
RECURSIVE Norm(_)
Norm(s) == IF s = <<>> THEN <<>>
           ELSE IF s[Len(s)] = 0 THEN Norm(SubSeq(s, 1, Len(s) - 1))
           ELSE s

RECURSIVE FromInt(_)
FromInt(n) == IF n = 0 THEN <<>> ELSE <<n % 256>> \o FromInt(n \div 256)

RECURSIVE ToInt(_)
ToInt(b) == IF b = <<>> THEN 0 ELSE b[1] + 256 * ToInt(Tail(b))

\* b + k for a small k >= 0.
RECURSIVE AddInt(_, _)
AddInt(b, k) ==
    IF k = 0 THEN b
    ELSE IF b = <<>> THEN FromInt(k)
    ELSE <<(b[1] + k) % 256>> \o AddInt(Tail(b), (b[1] + k) \div 256)

\* The u low-order bytes of b, as exactly u bytes: b & (2^(8u) - 1).
LowBytes(b, u) == [i \in 1..u |-> IF i <= Len(b) THEN b[i] ELSE 0]

Reverse(s) == [i \in 1..Len(s) |-> s[Len(s) + 1 - i]]

(***************************************************************************)
(* Text.  The ASCII codes of the characters the protocol uses.             *)
(***************************************************************************)
Ord(c) ==
    CASE c = "LF" -> 10 [] c = "#" -> 35 [] c = "," -> 44
      [] c = "0" -> 48 [] c = "1" -> 49 [] c = "2" -> 50 [] c = "3" -> 51
      [] c = "4" -> 52 [] c = "5" -> 53 [] c = "6" -> 54 [] c = "7" -> 55
      [] c = "8" -> 56 [] c = "9" -> 57
      [] c = "A" -> 65 [] c = "B" -> 66 [] c = "C" -> 67 [] c = "D" -> 68
      [] c = "E" -> 69 [] c = "F" -> 70
      [] c = "G" -> 71 [] c = "H" -> 72 [] c = "N" -> 78 [] c = "O" -> 79
      [] c = "R" -> 82 [] c = "S" -> 83 [] c = "T" -> 84 [] c = "V" -> 86
      [] c = "W" -> 87
      [] c = "h" -> 104 [] c = "o" -> 111 [] c = "w" -> 119

Ascii(s) == [i \in 1..Len(s) |-> Ord(s[i])]

TERM == Ascii(<<"#", "LF">>)

WRITE_WORD == Ord("W")
READ_WORD == Ord("w")
WRITE_HALF_WORD == Ord("H")
\* A bug: the read opcode in the case of the write opcode.
READ_HALF_WORD_upper == Ord("H")
READ_HALF_WORD == Ord("h")
WRITE_OCTET == Ord("O")
READ_OCTET == Ord("o")
WRITE == Ord("S")
READ == Ord("R")
INTERACTIVE == Ord("T")
NON_INTERACTIVE == Ord("N")
VERSION == Ord("V")
GO == Ord("G")

\* One digit of "%X" and of "%u".
HexDigit(d) == IF d < 10 THEN 48 + d ELSE 55 + d

\* The digits of b in base 16, most significant first, two per byte.
RECURSIVE RawHex(_)
RawHex(b) ==
    IF b = <<>> THEN <<>>
    ELSE RawHex(Tail(b)) \o <<HexDigit(b[1] \div 16), HexDigit(b[1] % 16)>>

RECURSIVE StripZeros(_)
StripZeros(d) == IF Len(d) > 1 /\ d[1] = 48 THEN StripZeros(Tail(d)) ELSE d

\* "%0<w>X" % b: at least w digits, zero-padded on the left, never cut.
FormatHex(b, w) ==
    LET digits == IF Norm(b) = <<>> THEN <<48>> ELSE StripZeros(RawHex(Norm(b)))
    IN  [i \in 1..Max(0, w - Len(digits)) |-> 48] \o digits

\* "%u" % n for a small n >= 0.
RECURSIVE FormatDec(_)
FormatDec(n) == IF n < 10 THEN <<48 + n>> ELSE FormatDec(n \div 10) \o <<48 + (n % 10)>>

(***************************************************************************)
(* The simulated target: a SAM-BA monitor that executes the frames of the  *)
(* wire format on a byte-addressed memory of 32-bit addresses, words       *)
(* little-endian.  It takes each write of the host as one packet.          *)
(***************************************************************************)
IsHexDigit(c) == (c >= 48 /\ c <= 57) \/ (c >= 65 /\ c <= 70)
IsHex(d) == Len(d) > 0 /\ \A i \in 1..Len(d) : IsHexDigit(d[i])
HexVal(c) == IF c <= 57 THEN c - 48 ELSE c - 55

\* The number a hexadecimal text denotes.
RECURSIVE ParseHex(_)
ParseHex(d) ==
    IF d = <<>> THEN <<>>
    ELSE IF Len(d) = 1 THEN Norm(<<HexVal(d[1])>>)
    ELSE Norm(<<16 * HexVal(d[Len(d) - 1]) + HexVal(d[Len(d)])>>
              \o ParseHex(SubSeq(d, 1, Len(d) - 2)))

\* Position of the first c in s, 0 when there is none.
IndexOf(s, c) ==
    IF \E i \in 1..Len(s) : s[i] = c
    THEN CHOOSE i \in 1..Len(s) : s[i] = c /\ \A j \in 1..(i - 1) : s[j] # c
    ELSE 0

\* Addresses are 32 bits wide on the target.
Addr32(a) == Norm(LowBytes(a, 4))

\* Memory never written holds a pattern that depends on the address.
ResetByte(a) == (5 * ToInt(LowBytes(a, 1)) + 3) % 256

MemGet(m, a) == IF a \in DOMAIN m THEN m[a] ELSE ResetByte(a)

MemRange(m, a, n) == [i \in 1..n |-> MemGet(m, Addr32(AddInt(a, i - 1)))]

MemPut(m, a, bytes) ==
    LET cell == [i \in 1..Len(bytes) |-> Addr32(AddInt(a, i - 1))]
        cells == {cell[i] : i \in 1..Len(bytes)}
        \* the last byte written to a cell wins
        at(x) == CHOOSE i \in 1..Len(bytes) :
                    cell[i] = x /\ \A j \in (i + 1)..Len(bytes) : cell[j] # x
    IN  [x \in (DOMAIN m) \cup cells |-> IF x \in cells THEN bytes[at(x)] ELSE m[x]]

UnitSize(opcode) ==
    CASE opcode \in {WRITE_WORD, READ_WORD} -> 4
      [] opcode \in {WRITE_HALF_WORD, READ_HALF_WORD} -> 2
      [] opcode \in {WRITE_OCTET, READ_OCTET} -> 1

NoPending == [active |-> FALSE, addr |-> <<>>, len |-> 0]

\* The ASCII string the monitor answers a version query with.
VersionReply == Ascii(<<"V", "1", "LF">>)

\* The target executes one command frame.  t = [rx, mem, pending, log].
TargetExec(t, frame) ==
    LET n == Len(frame)
        c == IndexOf(frame, Ord(","))
        terminated == n >= 3 /\ SubSeq(frame, n - 1, n) = TERM
    IN  IF frame = <<VERSION>> \o TERM THEN [t EXCEPT !.rx = @ \o VersionReply]
        ELSE IF ~terminated \/ c < 3 \/ c > n - 3 THEN t
        ELSE LET a == SubSeq(frame, 2, c - 1)
                 arg == SubSeq(frame, c + 1, n - 2)
                 opcode == frame[1]
             IN  IF ~IsHex(a) \/ ~IsHex(arg) THEN t
                 ELSE IF opcode \in {READ_WORD, READ_HALF_WORD, READ_OCTET}
                 THEN [t EXCEPT !.rx = @ \o MemRange(t.mem, Addr32(ParseHex(a)), UnitSize(opcode))]
                 ELSE IF opcode \in {WRITE_WORD, WRITE_HALF_WORD, WRITE_OCTET}
                 THEN [t EXCEPT !.mem = MemPut(@, Addr32(ParseHex(a)),
                                               LowBytes(ParseHex(arg), UnitSize(opcode)))]
                 ELSE IF opcode = WRITE
                 THEN [t EXCEPT !.pending = [active |-> TRUE, addr |-> Addr32(ParseHex(a)),
                                             len |-> ToInt(ParseHex(arg))]]
                 ELSE IF opcode = READ
                 THEN [t EXCEPT !.rx = @ \o MemRange(t.mem, Addr32(ParseHex(a)),
                                                     ToInt(ParseHex(arg)))]
                 ELSE t

\* One packet reaches the target: the payload of a pending S command, or a frame.
TargetReceive(t, data) ==
    IF t.pending.active
    THEN [t EXCEPT !.mem = MemPut(@, t.pending.addr,
                                  SubSeq(data, 1, Min(t.pending.len, Len(data)))),
                   !.pending = NoPending]
    ELSE TargetExec(t, data)

(***************************************************************************)
(* Port (src/atenka/port.py).  Each call is recorded in the log: its name,  *)
(* the bytes written or the bytes that arrived, the length asked for, and  *)
(* whether the call raised.                                                *)
(***************************************************************************)
Call(name, data, n, raised) == [call |-> name, data |-> data, n |-> n, raised |-> raised]

\* An exception raised by a Port call ends the driver call that made it:
\* samba.py has no except clause.  t.exc is the exception on its way to the
\* caller ("none" when there is none); the statements after the raise are not
\* executed, so a Port call made while t.exc is set does nothing.
Propagating(t) == t.exc # "none"

\* The number of Port.write calls of the current driver call.
RECURSIVE WritesSoFar(_)
WritesSoFar(l) ==
    IF l = <<>> THEN 0
    ELSE WritesSoFar(SubSeq(l, 1, Len(l) - 1)) + (IF l[Len(l)].call = "write" THEN 1 ELSE 0)

\* Port.write: the bytes go out and reach the target, unless serial.write
\* raises SerialTimeoutException (writeTimeout = 1.0): t.failWrite is the
\* number of the write that does so, 0 when none does.
PortWrite(t, data) ==
    IF Propagating(t) THEN t
    ELSE IF t.failWrite = WritesSoFar(t.log) + 1
    THEN [t EXCEPT !.exc = "SerialTimeoutException",
                   !.log = Append(t.log, Call("write", data, Len(data), TRUE))]
    ELSE [TargetReceive(t, data) EXCEPT !.log = Append(t.log, Call("write", data, Len(data), FALSE))]

\* Port.flush: flushOutput, flushInput.  Input not yet read is discarded.
PortFlush(t) ==
    IF Propagating(t) THEN t
    ELSE [t EXCEPT !.rx = <<>>, !.log = Append(t.log, Call("flush", <<>>, 0, FALSE))]

\* Port.read(length).  Of the bytes the target has sent, the last `lose` do not
\* arrive before the read timeout (0.0125 s) and are lost.  serial.read returns
\* what arrived; Port.read raises TimeoutError only when that is nothing.
PortReadTimedOut(length, data) == Len(data) = 0

PortRead(t, length, lose) ==
    IF Propagating(t) THEN [t |-> t, data |-> <<>>, raised |-> TRUE]
    ELSE IF length = 0
    THEN [t |-> [t EXCEPT !.log = Append(t.log, Call("read", <<>>, 0, FALSE))],
          data |-> <<>>, raised |-> FALSE]
    ELSE LET avail == Min(length, Len(t.rx))
             data == SubSeq(t.rx, 1, Max(0, avail - lose))
             raised == PortReadTimedOut(length, data)
         IN  [t |-> [t EXCEPT !.rx = SubSeq(@, avail + 1, Len(@)),
                              !.log = Append(t.log, Call("read", data, length, raised))],
              data |-> data,
              raised |-> raised]

\* `if self.opened:` of Port.close.
\* A bug: the device is closed whatever the flag says.
close_isOpened_always(p) == TRUE
close_isOpened(p) == p.opened

\* Port.close on the port p = [opened, device, closes, raised].  A port whose
\* open failed has no attribute _port.
Port_close(p) ==
    IF close_isOpened(p)
    THEN IF p.device = "none" THEN [p EXCEPT !.raised = "AttributeError"]
         ELSE [p EXCEPT !.device = "closed", !.closes = @ + 1, !.opened = FALSE]
    ELSE p

\* Port.__del__ and Samba.__del__: each calls close.
Port_del(p) == Port_close(p)
Samba_del(p) == Port_close(p)

(***************************************************************************)
(* Samba (src/atenka/samba.py): single-unit access.                        *)
(***************************************************************************)
\* How a driver call ends: with the exception on its way if there is one.
Raised(t, what) ==
    [t |-> t, status |-> (IF Propagating(t) THEN t.exc ELSE what),
     kind |-> "none", int |-> <<>>, bytes |-> <<>>]
Returned(t, kind, int, bytes) ==
    IF Propagating(t) THEN Raised(t, t.exc)
    ELSE [t |-> t, status |-> "ok", kind |-> kind, int |-> int, bytes |-> bytes]

\* struct.unpack of dlen bytes: "<L" is little-endian, "H" and "B" are native.
Unpack(dlen, data, bigEndian) ==
    IF dlen = 2 /\ bigEndian THEN Norm(Reverse(data)) ELSE Norm(data)

\* A bug: a read that timed out is tried once more, the command re-sent.
_readUnit_retry(t, cmd, addr, dlen, lose, bigEndian) ==
    LET frame == <<cmd>> \o FormatHex(addr, 8) \o <<Ord(",")>> \o FormatDec(dlen) \o TERM
        r1 == PortRead(PortWrite(t, frame), dlen, lose)
        r == IF r1.raised THEN PortRead(PortWrite(r1.t, frame), dlen, 0) ELSE r1
    IN  IF r.raised THEN Raised(r.t, "TimeoutError")
        ELSE IF Len(r.data) # dlen THEN Raised(r.t, "struct.error")
        ELSE Returned(r.t, "int", Unpack(dlen, r.data, bigEndian), <<>>)
_readUnit(t, cmd, addr, dlen, lose, bigEndian) ==
    LET t1 == PortWrite(t, <<cmd>> \o FormatHex(addr, 8) \o <<Ord(",")>>
                              \o FormatDec(dlen) \o TERM)
        r == PortRead(t1, dlen, lose)
    IN  IF r.raised THEN Raised(r.t, "TimeoutError")
        ELSE IF Len(r.data) # dlen THEN Raised(r.t, "struct.error")
        ELSE Returned(r.t, "int", Unpack(dlen, r.data, bigEndian), <<>>)

\* MASKS of _writeUnit: the mask and the width of the format, by unit size.
\* A bug: every unit size masks with 0xffffffff.
MaskBytes_word(dlen) == 4
MaskBytes(dlen) == dlen
MaskWidth(dlen) == 2 * dlen

\* A bug: the unit write flushes after its write, as _write does.
_writeUnit_flushed(t, cmd, addr, value, dlen) ==
    LET data == FormatHex(Norm(LowBytes(value, MaskBytes(dlen))), MaskWidth(dlen))
    IN  Returned(PortFlush(PortWrite(t, <<cmd>> \o FormatHex(addr, 8) \o <<Ord(",")>>
                                           \o data \o TERM)),
                 "none", <<>>, <<>>)
_writeUnit(t, cmd, addr, value, dlen) ==
    LET data == FormatHex(Norm(LowBytes(value, MaskBytes(dlen))), MaskWidth(dlen))
    IN  Returned(PortWrite(t, <<cmd>> \o FormatHex(addr, 8) \o <<Ord(",")>> \o data \o TERM),
                 "none", <<>>, <<>>)

(***************************************************************************)
(* Samba: chunked bulk transfer.                                           *)
(***************************************************************************)
\* A bug: the command and its payload leave in one write.
_write_merged(t, addr, length, data) ==
    PortFlush(PortWrite(t, <<WRITE>> \o FormatHex(addr, 8) \o <<Ord(",")>>
                           \o FormatHex(FromInt(length), 8) \o TERM \o data))

_write(t, addr, length, data) ==
    LET t1 == PortWrite(t, <<WRITE>> \o FormatHex(addr, 8) \o <<Ord(",")>>
                              \o FormatHex(FromInt(length), 8) \o TERM)
        t2 == PortFlush(t1)
        t3 == PortWrite(t2, data)
    IN  PortFlush(t3)

\* loops = length / MAX_PAYLOAD and bytesRemaining = length % MAX_PAYLOAD.
Loops(length) == length \div MAX_PAYLOAD
\* A bug: half of the remainder.
BytesRemaining_half(length) == (length % MAX_PAYLOAD) \div 2
BytesRemaining(length) == length % MAX_PAYLOAD
\* `if bytesRemaining:` of sendFile and of receiveFile.
\* A bug: the last command is sent even when nothing remains.
sendFile_hasRest_always(bytesRemaining) == TRUE
sendFile_hasRest(bytesRemaining) == bytesRemaining # 0
\* A bug: the last command is sent even when nothing remains.
receiveFile_hasRest_always(bytesRemaining) == TRUE
receiveFile_hasRest(bytesRemaining) == bytesRemaining # 0
\* `addrOffset += MAX_PAYLOAD` of sendFile, `offset += MAX_PAYLOAD` of receiveFile.
sendFile_nextAddr(addrOffset) == AddInt(addrOffset, MAX_PAYLOAD)
\* A bug: the offset is not advanced.
receiveFile_nextOffset_stuck(offset) == offset
receiveFile_nextOffset(offset) == AddInt(offset, MAX_PAYLOAD)

\* A bug: every chunk is cut from the start of the data.
Slice_fromStart(data, from, to) == SubSeq(data, 1, Min(to - from, Len(data)))

\* data[from : to] of Python, for 0 <= from.
Slice(data, from, to) == SubSeq(data, from + 1, Min(to, Len(data)))

\* `for l in range(loops)` of sendFile, from iteration l on.
RECURSIVE sendFile_loop(_, _, _, _, _, _, _)
sendFile_loop(t, data, addrOffset, dataOffsetFrom, dataOffsetTo, l, loops) ==
    IF l >= loops
    THEN [t |-> t, addrOffset |-> addrOffset, dataOffsetFrom |-> dataOffsetFrom]
    ELSE sendFile_loop(_write(t, addrOffset, MAX_PAYLOAD,
                              Slice(data, dataOffsetFrom, dataOffsetTo)),
                       data,
                       sendFile_nextAddr(addrOffset),
                       dataOffsetTo,
                       dataOffsetTo + MAX_PAYLOAD,
                       l + 1, loops)

sendFile(t, addr, data) ==
    LET length == Len(data)
        loops == Loops(length)
        bytesRemaining == BytesRemaining(length)
        s == sendFile_loop(t, data, addr, 0, MAX_PAYLOAD, 0, loops)
    IN  IF sendFile_hasRest(bytesRemaining)
        THEN Returned(_write(s.t, s.addrOffset, bytesRemaining,
                             Slice(data, s.dataOffsetFrom, s.dataOffsetFrom + bytesRemaining)),
                      "none", <<>>, <<>>)
        ELSE Returned(s.t, "none", <<>>, <<>>)

\* The bytes lost by the k-th read of a call under fault f = [at, lose].
LoseAt(f, k) == IF f.at = k THEN f.lose ELSE 0

\* `for l in range(loops)` of receiveFile, from iteration l on.  Every pass
\* reads `length` bytes, the length of the whole transfer.
RECURSIVE receiveFile_loop(_, _, _, _, _, _, _)
receiveFile_loop(t, length, offset, result, l, loops, f) ==
    IF l >= loops
    THEN [t |-> t, offset |-> offset, result |-> result, raised |-> FALSE]
    ELSE LET t1 == PortWrite(t, <<READ>> \o FormatHex(offset, 8) \o <<Ord(",")>>
                                   \o FormatHex(FromInt(MAX_PAYLOAD), 8) \o TERM)
             r == PortRead(t1, length, LoseAt(f, l + 1))
         IN  IF r.raised
             THEN [t |-> r.t, offset |-> offset, result |-> result, raised |-> TRUE]
             ELSE receiveFile_loop(r.t, length, receiveFile_nextOffset(offset),
                                   result \o r.data, l + 1, loops, f)

\* A bug: the command of the last chunk is followed by a flush, as the
\* commands of sendFile are.
receiveFile_flushed(t, addr, length, f) ==
    LET loops == Loops(length)
        bytesRemaining == BytesRemaining(length)
        s == receiveFile_loop(t, length, addr, <<>>, 0, loops, f)
    IN  IF s.raised THEN Raised(s.t, "TimeoutError")
        ELSE IF receiveFile_hasRest(bytesRemaining)
        THEN LET t1 == PortFlush(PortWrite(s.t, <<READ>> \o FormatHex(s.offset, 8)
                                        \o <<Ord(",")>>
                                        \o FormatHex(FromInt(bytesRemaining), 8) \o TERM))
                 r == PortRead(t1, bytesRemaining, LoseAt(f, loops + 1))
             IN  IF r.raised THEN Raised(r.t, "TimeoutError")
                 ELSE Returned(r.t, "bytes", <<>>, s.result \o r.data)
        ELSE Returned(s.t, "bytes", <<>>, s.result)
receiveFile(t, addr, length, f) ==
    LET loops == Loops(length)
        bytesRemaining == BytesRemaining(length)
        s == receiveFile_loop(t, length, addr, <<>>, 0, loops, f)
    IN  IF s.raised THEN Raised(s.t, "TimeoutError")
        ELSE IF receiveFile_hasRest(bytesRemaining)
        THEN LET t1 == PortWrite(s.t, <<READ>> \o FormatHex(s.offset, 8) \o <<Ord(",")>>
                                        \o FormatHex(FromInt(bytesRemaining), 8) \o TERM)
                 r == PortRead(t1, bytesRemaining, LoseAt(f, loops + 1))
             IN  IF r.raised THEN Raised(r.t, "TimeoutError")
                 ELSE Returned(r.t, "bytes", <<>>, s.result \o r.data)
        ELSE Returned(s.t, "bytes", <<>>, s.result)

(***************************************************************************)
(* Samba: commands without arguments, and go.                              *)
(***************************************************************************)
writeCmd(t, cmd) == PortWrite(t, <<cmd>> \o TERM)

\* Samba.version: the command is written; nothing is read, nothing returned.
version(t) == Returned(writeCmd(t, VERSION), "none", <<>>, <<>>)

\* Samba.go: "%s%08X" % (GO, addr), then a flush.
go(t, addr) == Returned(PortFlush(PortWrite(t, <<GO>> \o FormatHex(addr, 8))),
                        "none", <<>>, <<>>)

(***************************************************************************)
(* Samba: chip identification.                                             *)
(***************************************************************************)
\* 0x400E0740 and 0x400E0744.
CHIP_ID_ADDR == <<64, 7, 14, 64>>
EX_ID_ADDR == <<68, 7, 14, 64>>

chipId(t, lose, bigEndian) == _readUnit(t, READ_WORD, CHIP_ID_ADDR, 4, lose, bigEndian)
exId(t, lose, bigEndian) == _readUnit(t, READ_WORD, EX_ID_ADDR, 4, lose, bigEndian)

\* Bit i of the integer v.
Bit(v, i) == IF (i \div 8) + 1 <= Len(v) THEN (v[(i \div 8) + 1] \div (2 ^ (i % 8))) % 2 ELSE 0

\* (v & mask) >> shift, for the mask of `width` one-bits from bit `shift` up.
RECURSIVE BitField(_, _, _)
BitField(v, shift, width) ==
    IF width = 0 THEN 0 ELSE Bit(v, shift) + 2 * BitField(v, shift + 1, width - 1)

\* The masks of chipInfo, each by its lowest bit and its number of bits.
EXT == [shift |-> 31, width |-> 1]
NVPTYP == [shift |-> 28, width |-> 3]
ARCH == [shift |-> 20, width |-> 8]
SRAMSIZ == [shift |-> 16, width |-> 4]
NVPSIZ2 == [shift |-> 12, width |-> 4]
NVPSIZ == [shift |-> 8, width |-> 4]
EPROC == [shift |-> 5, width |-> 3]
CHIPID_VERSION == [shift |-> 0, width |-> 5]
PACKAGE == [shift |-> 24, width |-> 3]
LCD == [shift |-> 3, width |-> 1]
\* A bug: USB/Full tested with the mask of USB.
USBFULL_asUSB == [shift |-> 1, width |-> 1]
USBFULL == [shift |-> 2, width |-> 1]
USB == [shift |-> 1, width |-> 1]
AES == [shift |-> 0, width |-> 1]

\* (v & MASK) >> shift.
Field(v, mask) == BitField(v, mask.shift, mask.width)
\* (v & MASK) == MASK, for a mask of one bit.
Flag(v, mask) == BitField(v, mask.shift, mask.width) = 1

\* Python values: an Info namedtuple (by its name; the description is left
\* out), a str, an int.
Info(name) == [type |-> "Info", v |-> name]
PyStr(s) == [type |-> "str", v |-> s]
PyInt(n) == [type |-> "int", v |-> n]

\* A bug: get(key) without the default yields None for a key not in the dict.
DictGet_none(d, key, default) ==
    IF key.type = "int" /\ key.v \in DOMAIN d THEN d[key.v]
    ELSE [type |-> "NoneType", v |-> "None"]

\* dict.get(key, default) of a dict whose keys are ints: a key that is no
\* int equals none of them.
DictGet(d, key, default) ==
    IF key.type = "int" /\ key.v \in DOMAIN d THEN d[key.v] ELSE default

\* The dict literal repeats each key six times; the last entry stays.
FriendlyNames ==
    (<<224, 10, 11, 171>> :> PyStr("ATSAM4LS8A")) @@
    (<<224, 9, 10, 171>> :> PyStr("ATSAM4LS4A")) @@
    (<<224, 7, 10, 171>> :> PyStr("ATSAM4LS2A"))

NvpTypes ==
    (0 :> Info("ROM")) @@ (1 :> Info("ROMLESS")) @@ (4 :> Info("SRAM")) @@
    (2 :> Info("FLASH")) @@ (3 :> Info("ROM_FLASH"))

Archs ==
    (25 :> Info("AT91SAM9xx")) @@ (41 :> Info("AT91SAM9XExx")) @@
    (52 :> Info("AT91x34")) @@ (55 :> Info("CAP7")) @@ (57 :> Info("CAP9")) @@
    (59 :> Info("CAP11")) @@ (64 :> Info("AT91x40")) @@ (66 :> Info("AT91x42")) @@
    (85 :> Info("AT91x55")) @@ (96 :> Info("AT91SAM7Axx")) @@
    (97 :> Info("AT91SAM7AQxx")) @@ (99 :> Info("AT91x63")) @@
    (112 :> Info("AT91SAM7Sxx")) @@ (113 :> Info("AT91SAM7XCxx")) @@
    (114 :> Info("AT91SAM7SExx")) @@ (115 :> Info("AT91SAM7Lxx")) @@
    (117 :> Info("AT91SAM7Xxx")) @@ (118 :> Info("AT91SAM7SLxx")) @@
    (128 :> Info("SAM3UxC")) @@ (129 :> Info("SAM3UxE")) @@
    (131 :> Info("SAM3AxC/SAM4AxC")) @@ (132 :> Info("SAM3XxC/SAM4XxC")) @@
    (133 :> Info("SAM3XxE/SAM4XxE")) @@ (134 :> Info("SAM3XxG/SAM4XxG")) @@
    (136 :> Info("SAM3SxA/SAM4SxA")) @@ (137 :> Info("SAM3SxB/SAM4SxB")) @@
    (138 :> Info("SAM3SxC/SAM4SxC")) @@ (146 :> Info("AT91x92")) @@
    (147 :> Info("SAM3NxA")) @@ (148 :> Info("SAM3NxB")) @@
    (149 :> Info("SAM3NxC")) @@ (153 :> Info("SAM3SDxB")) @@
    (154 :> Info("SAM3SDxC")) @@ (165 :> Info("SAM5A")) @@
    (176 :> Info("SAM4L")) @@ (240 :> Info("AT75Cxx"))

SRamSizes ==
    (0 :> Info("48K")) @@ (1 :> Info("1K")) @@ (2 :> Info("2K")) @@
    (3 :> Info("6K")) @@ (4 :> Info("24K")) @@ (5 :> Info("4K")) @@
    (6 :> Info("80K")) @@ (7 :> Info("160K")) @@ (8 :> Info("8K")) @@
    (9 :> Info("16K")) @@ (10 :> Info("32K")) @@ (11 :> Info("64K")) @@
    (12 :> Info("128K")) @@ (13 :> Info("256K")) @@ (14 :> Info("96K")) @@
    (15 :> Info("512K"))

NvpSiz2s ==
    (0 :> Info("None")) @@ (1 :> Info("8K")) @@ (2 :> Info("16K")) @@
    (3 :> Info("32K")) @@ (4 :> Info("Reserved")) @@ (5 :> Info("64K")) @@
    (6 :> Info("Reserved")) @@ (7 :> Info("128K")) @@ (8 :> Info("Reserved")) @@
    (9 :> Info("256K")) @@ (10 :> Info("512K")) @@ (11 :> Info("Reserved")) @@
    (12 :> Info("1024K")) @@ (13 :> Info("Reserved")) @@ (14 :> Info("2048K")) @@
    (15 :> Info("Reserved"))

EProcs ==
    (1 :> Info("ARM946ES")) @@ (2 :> Info("ARM7TDMI")) @@ (3 :> Info("CM3")) @@
    (4 :> Info("ARM920T")) @@ (5 :> Info("ARM926EJS")) @@ (6 :> Info("CA5")) @@
    (7 :> Info("CM4"))

NvpSizes ==
    (0 :> Info("NONE")) @@ (1 :> Info("8K")) @@ (2 :> Info("16K")) @@
    (3 :> Info("32K")) @@ (4 :> Info("Reserved")) @@ (5 :> Info("64K")) @@
    (6 :> Info("Reserved")) @@ (7 :> Info("128K")) @@ (8 :> Info("Reserved")) @@
    (9 :> Info("256K")) @@ (10 :> Info("512K")) @@ (11 :> Info("Reserved")) @@
    (12 :> Info("1024K")) @@ (13 :> Info("Reserved")) @@ (14 :> Info("2048K")) @@
    (15 :> Info("Reserved"))

\* A bug: the package codes count from 1.
Packages_from1 ==
    (1 :> PyStr("24-pin")) @@ (2 :> PyStr("32-pin")) @@ (3 :> PyStr("48-pin")) @@
    (4 :> PyStr("64-pin")) @@ (5 :> PyStr("100-pi")) @@ (6 :> PyStr("144-pin"))

Packages ==
    (0 :> PyStr("24-pin")) @@ (1 :> PyStr("32-pin")) @@ (2 :> PyStr("48-pin")) @@
    (3 :> PyStr("64-pin")) @@ (4 :> PyStr("100-pi")) @@ (5 :> PyStr("144-pin"))

Unknown == PyStr("*** Unknown ***")
Reserved == PyStr("*** Reserved ***")

\* `ext = (chipId & EXT) == EXT`.
\* A bug: the extension is taken to be absent always.
ExtFlag_never(id) == FALSE
ExtFlag(id) == Flag(id, EXT)

\* The package of a chip without extension: the str, not a package code.
\* A bug: package code 0.
NoPackage_zero == PyInt(0)
NoPackage == Unknown

\* The record chipInfo builds from the chip id and what the `if ext:`
\* statement assigned.  The sixth argument of the call is the lookup of
\* nvpsiz and the seventh that of nvpsiz2.
DeviceCapabilities(id, package, lcd, usb, usbfull, aes) ==
    [friendlyName |-> IF id \in DOMAIN FriendlyNames THEN FriendlyNames[id] ELSE Unknown,
     nvpType |-> DictGet(NvpTypes, PyInt(Field(id, NVPTYP)), Unknown),
     architecture |-> DictGet(Archs, PyInt(Field(id, ARCH)), Unknown),
     sramSize |-> DictGet(SRamSizes, PyInt(Field(id, SRAMSIZ)), Unknown),
     nvpSize0 |-> DictGet(NvpSizes, PyInt(Field(id, NVPSIZ)), Unknown),
     nvpSize1 |-> DictGet(NvpSiz2s, PyInt(Field(id, NVPSIZ2)), Unknown),
     processor |-> DictGet(EProcs, PyInt(Field(id, EPROC)), Unknown),
     version |-> Field(id, CHIPID_VERSION),
     ext |-> ExtFlag(id),
     package |-> DictGet(Packages, package, Reserved),
     lcd |-> lcd, usb |-> usb, usbfull |-> usbfull, aes |-> aes]

ReturnedInfo(t, info) ==
    [t |-> t, status |-> "ok", kind |-> "DeviceCapabilities", int |-> <<>>,
     bytes |-> <<>>, info |-> info]

\* Samba.chipInfo.  f is the fault of its reads: the first is that of the
\* chip id, the second that of the extended id.
chipInfo(t, f, bigEndian) ==
    LET r1 == chipId(t, LoseAt(f, 1), bigEndian)
    IN  IF r1.status # "ok" THEN r1
        ELSE IF ExtFlag(r1.int)
        THEN LET r2 == exId(r1.t, LoseAt(f, 2), bigEndian)
             IN  IF r2.status # "ok" THEN r2
                 ELSE ReturnedInfo(r2.t,
                          DeviceCapabilities(r1.int, PyInt(Field(r2.int, PACKAGE)),
                                             Flag(r2.int, LCD), Flag(r2.int, USB),
                                             Flag(r2.int, USBFULL), Flag(r2.int, AES)))
        ELSE ReturnedInfo(r1.t,
                 DeviceCapabilities(r1.int, NoPackage, FALSE, FALSE, FALSE, FALSE))

(***************************************************************************)
(* ModGPIO (src/atenka/atenka-cl.py): register access by name.             *)
(***************************************************************************)
ACC_RW == 0
ACC_RO == 1
ACC_WO == 2

\* GPIORegister: offset, access, extInterface (description and decoder are
\* text and None).
GPIORegister(offset, access, extInterface) ==
    [offset |-> offset, access |-> access, extInterface |-> extInterface]

\* 0x400E1000 and 0x0200.
GPIO_BASE_ADDRESS == 1074663424
REGISTER_BLOCK_SIZE == 512
PA == 0
PB == 1
PC == 2

\* ModGPIO.REGISTERS, offsets in decimal.
REGISTERS ==
    ("GPER" :> GPIORegister(0, ACC_RW, TRUE)) @@
    ("PMR0" :> GPIORegister(16, ACC_RW, TRUE)) @@
    ("PMR1" :> GPIORegister(32, ACC_RW, TRUE)) @@
    ("PMR2" :> GPIORegister(48, ACC_RW, TRUE)) @@
    ("ODER" :> GPIORegister(64, ACC_RW, TRUE)) @@
    ("OVR" :> GPIORegister(80, ACC_RW, TRUE)) @@
    ("PVR" :> GPIORegister(96, ACC_RO, FALSE)) @@
    ("PUER" :> GPIORegister(112, ACC_RW, TRUE)) @@
    ("PDER" :> GPIORegister(128, ACC_RW, TRUE)) @@
    ("IER" :> GPIORegister(144, ACC_RW, TRUE)) @@
    ("IMR0" :> GPIORegister(160, ACC_RW, TRUE)) @@
    ("IMR1" :> GPIORegister(176, ACC_RW, TRUE)) @@
    ("GFER" :> GPIORegister(192, ACC_RW, TRUE)) @@
    ("IFR" :> GPIORegister(208, ACC_RO, TRUE)) @@
    ("ODCR0" :> GPIORegister(256, ACC_RW, TRUE)) @@
    ("ODCR1" :> GPIORegister(272, ACC_RW, TRUE)) @@
    ("OSRR0" :> GPIORegister(304, ACC_RW, TRUE)) @@
    ("OSRR0T" :> GPIORegister(316, ACC_WO, TRUE)) @@
    ("STER" :> GPIORegister(352, ACC_RW, TRUE)) @@
    ("EVER" :> GPIORegister(384, ACC_RW, TRUE)) @@
    ("PARAMETER" :> GPIORegister(504, ACC_RO, FALSE)) @@
    ("VERSION" :> GPIORegister(508, ACC_RO, FALSE))

_baseAddress(instance) == GPIO_BASE_ADDRESS + (instance * REGISTER_BLOCK_SIZE)

\* _namecheck and _extInterfaceCheck: TRUE when the check raises nothing.
_namecheck(reg) == reg \in DOMAIN REGISTERS
_extInterfaceCheck(reg) == REGISTERS[reg].extInterface

ModGPIO_read(t, inst, reg, lose, bigEndian) ==
    IF ~_namecheck(reg) THEN Raised(t, "RegisterNotDefinedError")
    ELSE _readUnit(t, READ_WORD, FromInt(_baseAddress(inst) + REGISTERS[reg].offset),
                   4, lose, bigEndian)

\* write computes an address and does nothing with it.
ModGPIO_write(t, inst, reg, value) ==
    IF ~_namecheck(reg) THEN Raised(t, "RegisterNotDefinedError")
    ELSE Returned(t, "none", <<>>, <<>>)

\* set, clear and toggle have the same body.
ModGPIO_set(t, inst, reg, mask) ==
    IF ~_namecheck(reg) THEN Raised(t, "RegisterNotDefinedError")
    ELSE IF ~_extInterfaceCheck(reg) THEN Raised(t, "InterfaceNotSupportedError")
    ELSE Returned(t, "none", <<>>, <<>>)
ModGPIO_clear(t, inst, reg, mask) == ModGPIO_set(t, inst, reg, mask)
ModGPIO_toggle(t, inst, reg, mask) == ModGPIO_set(t, inst, reg, mask)

(***************************************************************************)
(* Inputs of the calls.                                                    *)
(***************************************************************************)
\* 0x00000000 and SRAM + 0x6000 = 0x20006000.
UnitAddrs == {<<>>, <<0, 96, 0, 32>>}
\* 0xDEADBEEF, 0x000001FF, 0x00000034 and the 33-bit 0x100000012.
Values == {<<239, 190, 173, 222>>, <<255, 1>>, <<52>>, <<18, 0, 0, 0, 1>>}
\* APPLET_ADDR = 0x20002000, and an address one byte further.
BulkAddrs == {<<0, 32, 0, 32>>, <<1, 32, 0, 32>>}
Lengths == {0, 1, MAX_PAYLOAD - 1, MAX_PAYLOAD, MAX_PAYLOAD + 1,
            2 * MAX_PAYLOAD, 3 * MAX_PAYLOAD + 7}
\* A buffer of L bytes, all different.
Data(L) == [i \in 1..L |-> (7 + 17 * i) % 256]
\* More bytes than any read asks for.
LoseAll == 3 * MAX_PAYLOAD + 8
NoFault == [at |-> 0, lose |-> 0]
UnitFaults == {NoFault, [at |-> 1, lose |-> 1], [at |-> 1, lose |-> LoseAll]}
BulkFaults == {NoFault, [at |-> 1, lose |-> 1], [at |-> 1, lose |-> LoseAll],
               [at |-> 2, lose |-> 1]}

(***************************************************************************)
(* The state machine.                                                      *)
(***************************************************************************)
OpRec(name, addr, size, value, data, length, f) ==
    [name |-> name, addr |-> addr, size |-> size, value |-> value,
     data |-> data, length |-> length, fault |-> f]

\* The port and the target as a driver call finds them; no write fails.
Env == [rx |-> rx, mem |-> mem, pending |-> pending, log |-> <<>>,
        exc |-> "none", failWrite |-> 0]

\* The same, when the k-th Port.write of the call raises.
EnvFailing(k) == [Env EXCEPT !.failWrite = k]

\* A bug: every call leaves the driver without a mode.
Finish_resetMode(r0, o) == \E r \in {r0} :
    /\ mem' = r.t.mem
    /\ pending' = r.t.pending
    /\ rx' = r.t.rx
    /\ log' = r.t.log
    /\ res' = [status |-> r.status, kind |-> r.kind, int |-> r.int, bytes |-> r.bytes]
    /\ op' = o
    /\ nops' = nops + 1
    /\ interactive' = "None"
    /\ UNCHANGED <<hostBigEndian, opened, device, closes, ncloses, life, main, sing>>

\* The state after a call that ended as r0.
Finish(r0, o) == \E r \in {r0} :
    /\ mem' = r.t.mem
    /\ pending' = r.t.pending
    /\ rx' = r.t.rx
    /\ log' = r.t.log
    /\ res' = [status |-> r.status, kind |-> r.kind, int |-> r.int, bytes |-> r.bytes]
    /\ op' = o
    /\ nops' = nops + 1
    /\ UNCHANGED <<interactive, hostBigEndian, opened, device, closes, ncloses, life, main, sing>>

\* The module classes of atenka-cl.py that are constructed (main, 392-393).
ModuleClasses == {"ModGPIO", "ModFlash"}

\* The threads that construct module classes.
NThreads == 3
Threads == 1 .. NThreads

\* main is not running; no thread constructs a module.
MainOff == [phase |-> "off", todo |-> <<>>, data |-> <<>>, modules |-> {}]
\* The classes that can carry the attribute _instance, and the order in
\* which hasattr and getattr look them up for a module class.
Classes == ModuleClasses \cup {"Module", "SingletonBase"}
Mro(c) == <<c, "Module", "SingletonBase">>

\* An object: the class it was allocated for and its number among these.
NoInstance == [cls |-> "none", n |-> 0]

\* pc, cls, ret, raised: of each thread, where it is in __new__, the class it
\* constructs, what __new__ returned to it and what it raised; lock: the
\* thread that holds SingletonBase._lock, 0 when it is free; attr: the
\* attribute _instance in the __dict__ of each class, NoInstance when the
\* class has none; created: the objects allocated so far, by class.
SingOff ==
    [pc |-> [th \in Threads |-> "off"], cls |-> [th \in Threads |-> "ModGPIO"],
     ret |-> [th \in Threads |-> NoInstance], raised |-> [th \in Threads |-> "ok"],
     lock |-> 0,
     attr |-> [c \in Classes |-> NoInstance], created |-> [c \in ModuleClasses |-> 0]]

\* Samba.__init__ on an open port of a host of either byte order.
Init ==
    /\ mem = <<>>
    /\ pending = NoPending
    /\ rx = <<>>
    /\ interactive = "None"
    /\ hostBigEndian \in BOOLEAN
    /\ op = OpRec("__init__", <<>>, 0, <<>>, <<>>, 0, NoFault)
    /\ res = [status |-> "ok", kind |-> "none", int |-> <<>>, bytes |-> <<>>]
    /\ log = <<Call("flush", <<>>, 0, FALSE)>>
    /\ nops = 0
    /\ opened = TRUE
    /\ device = "open"
    /\ closes = 0
    /\ ncloses = 0
    /\ life = {"samba", "port"}
    /\ main = MainOff
    /\ sing = SingOff

writeLong(addr, l) ==
    /\ nops < MaxOps
    /\ Finish(_writeUnit(Env, WRITE_WORD, addr, l, 4),
              OpRec("writeLong", addr, 4, l, <<>>, 0, NoFault))

readLong(addr, f) ==
    /\ nops < MaxOps
    /\ Finish(_readUnit(Env, READ_WORD, addr, 4, LoseAt(f, 1), hostBigEndian),
              OpRec("readLong", addr, 4, <<>>, <<>>, 0, f))

writeWord(addr, w) ==
    /\ nops < MaxOps
    /\ Finish(_writeUnit(Env, WRITE_HALF_WORD, addr, w, 2),
              OpRec("writeWord", addr, 2, w, <<>>, 0, NoFault))

readWord(addr, f) ==
    /\ nops < MaxOps
    /\ Finish(_readUnit(Env, READ_HALF_WORD, addr, 2, LoseAt(f, 1), hostBigEndian),
              OpRec("readWord", addr, 2, <<>>, <<>>, 0, f))

writeByte(addr, b) ==
    /\ nops < MaxOps
    /\ Finish(_writeUnit(Env, WRITE_OCTET, addr, b, 1),
              OpRec("writeByte", addr, 1, b, <<>>, 0, NoFault))

readByte(addr, f) ==
    /\ nops < MaxOps
    /\ Finish(_readUnit(Env, READ_OCTET, addr, 1, LoseAt(f, 1), hostBigEndian),
              OpRec("readByte", addr, 1, <<>>, <<>>, 0, f))

SendFile(addr, data) ==
    /\ nops < MaxOps
    /\ Finish(sendFile(Env, addr, data),
              OpRec("sendFile", addr, 0, <<>>, data, Len(data), NoFault))

ReceiveFile(addr, length, f) ==
    /\ nops < MaxOps
    /\ Finish(receiveFile(Env, addr, length, f),
              OpRec("receiveFile", addr, 0, <<>>, <<>>, length, f))

\* The state after a call that ended as r0 and assigned _interactive.
FinishMode(r0, o, flag) == \E r \in {r0} :
    /\ mem' = r.t.mem
    /\ pending' = r.t.pending
    /\ rx' = r.t.rx
    /\ log' = r.t.log
    /\ res' = [status |-> r.status, kind |-> r.kind, int |-> r.int, bytes |-> r.bytes]
    /\ op' = o
    /\ nops' = nops + 1
    /\ interactive' = flag
    /\ UNCHANGED <<hostBigEndian, opened, device, closes, ncloses, life, main, sing>>

\* The state after a call of chipInfo that ended as r0.
FinishInfo(r0, o) == \E r \in {r0} :
    /\ mem' = r.t.mem
    /\ pending' = r.t.pending
    /\ rx' = r.t.rx
    /\ log' = r.t.log
    /\ res' = IF r.status = "ok"
              THEN [status |-> r.status, kind |-> r.kind, int |-> r.int,
                    bytes |-> r.bytes, info |-> r.info]
              ELSE [status |-> r.status, kind |-> r.kind, int |-> r.int, bytes |-> r.bytes]
    /\ op' = o
    /\ nops' = nops + 1
    /\ UNCHANGED <<interactive, hostBigEndian, opened, device, closes, ncloses, life, main, sing>>

Interactive ==
    /\ nops < MaxOps
    /\ FinishMode(Returned(writeCmd(Env, INTERACTIVE), "none", <<>>, <<>>),
                  OpRec("interactive", <<>>, 0, <<>>, <<>>, 0, NoFault), "True")

\* A bug: nonInteractive sets the flag as interactive does.
NonInteractive_setsTrue ==
    /\ nops < MaxOps
    /\ FinishMode(Returned(writeCmd(Env, NON_INTERACTIVE), "none", <<>>, <<>>),
                  OpRec("nonInteractive", <<>>, 0, <<>>, <<>>, 0, NoFault), "True")
NonInteractive ==
    /\ nops < MaxOps
    /\ FinishMode(Returned(writeCmd(Env, NON_INTERACTIVE), "none", <<>>, <<>>),
                  OpRec("nonInteractive", <<>>, 0, <<>>, <<>>, 0, NoFault), "False")

Version ==
    /\ nops < MaxOps
    /\ Finish(version(Env), OpRec("version", <<>>, 0, <<>>, <<>>, 0, NoFault))

Go(addr) ==
    /\ nops < MaxOps
    /\ Finish(go(Env, addr), OpRec("go", addr, 0, <<>>, <<>>, 0, NoFault))

ChipId(f) ==
    /\ nops < MaxOps
    /\ Finish(chipId(Env, LoseAt(f, 1), hostBigEndian),
              OpRec("chipId", CHIP_ID_ADDR, 4, <<>>, <<>>, 0, f))

ExId(f) ==
    /\ nops < MaxOps
    /\ Finish(exId(Env, LoseAt(f, 1), hostBigEndian),
              OpRec("exId", EX_ID_ADDR, 4, <<>>, <<>>, 0, f))

ChipInfo(f) ==
    /\ nops < MaxOps
    /\ FinishInfo(chipInfo(Env, f, hostBigEndian),
                  OpRec("chipInfo", CHIP_ID_ADDR, 4, <<>>, <<>>, 0, f))

\* The state after a call of Port.close or of a destructor that ended as p0.
FinishClose(p0, name, alive) == \E p \in {p0} :
    /\ opened' = p.opened
    /\ device' = p.device
    /\ closes' = p.closes
    /\ ncloses' = ncloses + 1
    /\ life' = alive
    /\ op' = OpRec(name, <<>>, 0, <<>>, <<>>, 0, NoFault)
    /\ res' = [status |-> p.raised, kind |-> "none", int |-> <<>>, bytes |-> <<>>]
    /\ log' = <<>>
    /\ UNCHANGED <<mem, pending, rx, interactive, hostBigEndian, nops, main, sing>>

ThePort == [opened |-> opened, device |-> device, closes |-> closes, raised |-> "ok"]

\* The caller calls Port.close; it has a port only when Port.__init__ returned.
Close ==
    /\ ncloses < MaxCloses
    /\ "port" \in life
    /\ device # "none"
    /\ FinishClose(Port_close(ThePort), "close", life)

\* The driver is destroyed.
SambaDel ==
    /\ ncloses < MaxCloses
    /\ "samba" \in life
    /\ FinishClose(Samba_del(ThePort), "Samba.__del__", life \ {"samba"})

\* The port is destroyed: no driver refers to it any more, or the
\* interpreter exits and destroys the objects in an order of its own.
PortDel ==
    /\ ncloses < MaxCloses
    /\ "port" \in life
    /\ FinishClose(Port_del(ThePort), "Port.__del__", life \ {"port"})

NextUnit ==
    \/ \E a \in UnitAddrs, v \in Values : writeLong(a, v)
    \/ \E a \in UnitAddrs, v \in Values : writeWord(a, v)
    \/ \E a \in UnitAddrs, v \in Values : writeByte(a, v)
    \/ \E a \in UnitAddrs, f \in UnitFaults : readLong(a, f)
    \/ \E a \in UnitAddrs, f \in UnitFaults : readWord(a, f)
    \/ \E a \in UnitAddrs, f \in UnitFaults : readByte(a, f)

NextBulk ==
    \/ \E a \in BulkAddrs, L \in Lengths : SendFile(a, Data(L))
    \/ \E a \in BulkAddrs, L \in Lengths, f \in BulkFaults : ReceiveFile(a, L, f)

Next == NextUnit \/ NextBulk

\* Every call of the driver, in any order.
Spec == Init /\ [][Next]_vars
\* Calls of the single-unit methods only.
SpecUnit == Init /\ [][NextUnit]_vars
\* Calls of sendFile and receiveFile only.  Neither unpacks an integer, so
\* one byte order of the host stands for both.
InitBulk == Init /\ ~hostBigEndian
SpecBulk == InitBulk /\ [][NextBulk]_vars

(***************************************************************************)
(* Every command of the driver, on few inputs: the applet address and an   *)
(* address two bytes below the end of the 32-bit address space.            *)
(***************************************************************************)
\* APPLET_ADDR = 0x20002000 and 0xFFFFFFFE.
CmdAddrs == {<<0, 32, 0, 32>>, <<254, 255, 255, 255>>}
\* 0xDEADBEEF.
CmdValues == {<<239, 190, 173, 222>>}
CmdLengths == {0, MAX_PAYLOAD + 1}
CmdFaults == {NoFault, [at |-> 1, lose |-> LoseAll]}

NextCmd ==
    \/ Interactive
    \/ NonInteractive
    \/ Version
    \/ \E a \in CmdAddrs : Go(a)
    \/ \E a \in CmdAddrs, v \in CmdValues : writeLong(a, v)
    \/ \E a \in CmdAddrs, v \in CmdValues : writeWord(a, v)
    \/ \E a \in CmdAddrs, v \in CmdValues : writeByte(a, v)
    \/ \E a \in CmdAddrs, f \in CmdFaults : readLong(a, f)
    \/ \E a \in CmdAddrs, f \in CmdFaults : readWord(a, f)
    \/ \E a \in CmdAddrs, f \in CmdFaults : readByte(a, f)
    \/ \E a \in CmdAddrs, L \in CmdLengths : SendFile(a, Data(L))
    \/ \E a \in CmdAddrs, L \in CmdLengths, f \in CmdFaults : ReceiveFile(a, L, f)
    \/ \E f \in CmdFaults : ChipId(f)
    \/ \E f \in CmdFaults : ExId(f)
    \/ \E f \in CmdFaults : ChipInfo(f)

SpecCmd == InitBulk /\ [][NextCmd]_vars

(***************************************************************************)
(* Calls during which the transport fails: a read times out, or the k-th   *)
(* Port.write of the call raises.                                          *)
(***************************************************************************)
\* The k-th write of the call raises; no read loses bytes.
WriteFault(k) == [at |-> 0, lose |-> 0, wat |-> k]
\* One chunk and three chunks.
RetryLengths == {MAX_PAYLOAD - 1, 2 * MAX_PAYLOAD + 1}
\* The writes of a transfer of three chunks: sendFile makes two per chunk,
\* receiveFile one.
SendFileWrites == 1 .. 6
ReceiveFileWrites == 1 .. 3

WriteLongFailing(addr, l) ==
    /\ nops < MaxOps
    /\ Finish(_writeUnit(EnvFailing(1), WRITE_WORD, addr, l, 4),
              OpRec("writeLong", addr, 4, l, <<>>, 0, WriteFault(1)))

ReadLongFailing(addr) ==
    /\ nops < MaxOps
    /\ Finish(_readUnit(EnvFailing(1), READ_WORD, addr, 4, 0, hostBigEndian),
              OpRec("readLong", addr, 4, <<>>, <<>>, 0, WriteFault(1)))

SendFileFailing(addr, data, k) ==
    /\ nops < MaxOps
    /\ Finish(sendFile(EnvFailing(k), addr, data),
              OpRec("sendFile", addr, 0, <<>>, data, Len(data), WriteFault(k)))

ReceiveFileFailing(addr, length, k) ==
    /\ nops < MaxOps
    /\ Finish(receiveFile(EnvFailing(k), addr, length, NoFault),
              OpRec("receiveFile", addr, 0, <<>>, <<>>, length, WriteFault(k)))

NextRetry ==
    \/ \E a \in UnitAddrs, v \in CmdValues : WriteLongFailing(a, v)
    \/ \E a \in UnitAddrs : ReadLongFailing(a)
    \/ \E L \in RetryLengths, k \in SendFileWrites :
            SendFileFailing(<<0, 32, 0, 32>>, Data(L), k)
    \/ \E L \in RetryLengths, k \in ReceiveFileWrites :
            ReceiveFileFailing(<<0, 32, 0, 32>>, L, k)
    \/ \E a \in UnitAddrs, v \in CmdValues : writeLong(a, v)
    \/ \E a \in UnitAddrs, f \in UnitFaults : readLong(a, f)
    \/ \E a \in UnitAddrs, f \in UnitFaults : readWord(a, f)
    \/ \E a \in UnitAddrs, f \in UnitFaults : readByte(a, f)
    \/ \E L \in RetryLengths : SendFile(<<0, 32, 0, 32>>, Data(L))
    \/ \E L \in RetryLengths, f \in BulkFaults : ReceiveFile(<<0, 32, 0, 32>>, L, f)

SpecRetry == InitBulk /\ [][NextRetry]_vars

(***************************************************************************)
(* Calls of the five access methods of ModGPIO, on every register name of  *)
(* the table and one that is not in it.                                    *)
(***************************************************************************)
GpioInstances == {PA, PB, PC}
GpioRegArgs == DOMAIN REGISTERS \cup {"GPERX"}
\* 0x00010000: pin 16.
GpioValues == {<<0, 0, 1>>}

GpioOp(name, inst, reg, value, f) ==
    [reg |-> reg, inst |-> inst] @@ OpRec(name, <<>>, 4, value, <<>>, 0, f)

GpioRead(inst, reg, f) ==
    /\ nops < MaxOps
    /\ Finish(ModGPIO_read(Env, inst, reg, LoseAt(f, 1), hostBigEndian),
              GpioOp("ModGPIO.read", inst, reg, <<>>, f))

GpioWrite(inst, reg, value) ==
    /\ nops < MaxOps
    /\ Finish(ModGPIO_write(Env, inst, reg, value),
              GpioOp("ModGPIO.write", inst, reg, value, NoFault))

GpioSet(inst, reg, mask) ==
    /\ nops < MaxOps
    /\ Finish(ModGPIO_set(Env, inst, reg, mask),
              GpioOp("ModGPIO.set", inst, reg, mask, NoFault))

GpioClear(inst, reg, mask) ==
    /\ nops < MaxOps
    /\ Finish(ModGPIO_clear(Env, inst, reg, mask),
              GpioOp("ModGPIO.clear", inst, reg, mask, NoFault))

GpioToggle(inst, reg, mask) ==
    /\ nops < MaxOps
    /\ Finish(ModGPIO_toggle(Env, inst, reg, mask),
              GpioOp("ModGPIO.toggle", inst, reg, mask, NoFault))

NextGPIO ==
    \/ \E i \in GpioInstances, r \in GpioRegArgs, f \in CmdFaults : GpioRead(i, r, f)
    \/ \E i \in GpioInstances, r \in GpioRegArgs, v \in GpioValues : GpioWrite(i, r, v)
    \/ \E i \in GpioInstances, r \in GpioRegArgs, v \in GpioValues : GpioSet(i, r, v)
    \/ \E i \in GpioInstances, r \in GpioRegArgs, v \in GpioValues : GpioClear(i, r, v)
    \/ \E i \in GpioInstances, r \in GpioRegArgs, v \in GpioValues : GpioToggle(i, r, v)

SpecGPIO == InitBulk /\ [][NextGPIO]_vars

(***************************************************************************)
(* Chip identification: the two id registers of the target hold any of a   *)
(* few values, and the driver reads them.                                  *)
(***************************************************************************)
\* 0xAB0B0AE0, 0xAB0A09E0, 0x2B0B0AE0, 0x00000000, 0xFFFFFFFF, 0x8FF00000,
\* 0x47510365, 0xD9A5C4A1.
ChipIds == {<<224, 10, 11, 171>>, <<224, 9, 10, 171>>, <<224, 10, 11, 43>>,
            <<>>, <<255, 255, 255, 255>>, <<0, 0, 240, 143>>,
            <<101, 3, 81, 71>>, <<161, 196, 165, 217>>}
\* 0x00000000, 0x0300000A, 0x0700000F, 0xFFFFFFF0.
ExIds == {<<>>, <<10, 0, 0, 3>>, <<15, 0, 0, 7>>, <<240, 255, 255, 255>>}
ChipFaults == {NoFault, [at |-> 1, lose |-> LoseAll], [at |-> 1, lose |-> 1],
               [at |-> 2, lose |-> LoseAll]}

\* Samba.__init__ on an open port, the registers of the target as given.
InitChip ==
    /\ \E id \in ChipIds, ex \in ExIds :
          mem = MemPut(MemPut(<<>>, CHIP_ID_ADDR, LowBytes(id, 4)),
                       EX_ID_ADDR, LowBytes(ex, 4))
    /\ pending = NoPending
    /\ rx = <<>>
    /\ interactive = "None"
    /\ hostBigEndian \in BOOLEAN
    /\ op = OpRec("__init__", <<>>, 0, <<>>, <<>>, 0, NoFault)
    /\ res = [status |-> "ok", kind |-> "none", int |-> <<>>, bytes |-> <<>>]
    /\ log = <<Call("flush", <<>>, 0, FALSE)>>
    /\ nops = 0
    /\ opened = TRUE
    /\ device = "open"
    /\ closes = 0
    /\ ncloses = 0
    /\ life = {"samba", "port"}
    /\ main = MainOff
    /\ sing = SingOff

NextChip ==
    \/ \E f \in ChipFaults : ChipInfo(f)
    \/ \E f \in ChipFaults : ChipId(f)
    \/ \E f \in ChipFaults : ExId(f)

SpecChip == InitChip /\ [][NextChip]_vars

(***************************************************************************)
(* Decoding: chipInfo on id registers that hold one bit each, alone or     *)
(* together with the extension bit, every combination of the four feature  *)
(* bits and every package code.                                            *)
(***************************************************************************)
\* The 32-bit value with bit i set.
OneBit(i) == Norm([k \in 1..4 |-> IF k = (i \div 8) + 1 THEN 2 ^ (i % 8) ELSE 0])
\* The same with bit 31 set as well.
OneBitExt(i) ==
    Norm([k \in 1..4 |-> (IF k = (i \div 8) + 1 /\ i # 31 THEN 2 ^ (i % 8) ELSE 0)
                          + (IF k = 4 THEN 128 ELSE 0)])
DecodeChipIds == ChipIds \cup {OneBit(i) : i \in 0..31} \cup {OneBitExt(i) : i \in 0..31}
DecodeExIds ==
    ExIds \cup {OneBit(i) : i \in 0..31}
          \cup {Norm(<<flags, 0, 0, package>>) : flags \in 0..15, package \in {0, 5}}
          \cup {Norm(<<0, 0, 0, package>>) : package \in 0..7}

InitDecode ==
    /\ \E id \in DecodeChipIds, ex \in DecodeExIds :
          mem = MemPut(MemPut(<<>>, CHIP_ID_ADDR, LowBytes(id, 4)),
                       EX_ID_ADDR, LowBytes(ex, 4))
    /\ pending = NoPending
    /\ rx = <<>>
    /\ interactive = "None"
    /\ hostBigEndian = FALSE
    /\ op = OpRec("__init__", <<>>, 0, <<>>, <<>>, 0, NoFault)
    /\ res = [status |-> "ok", kind |-> "none", int |-> <<>>, bytes |-> <<>>]
    /\ log = <<Call("flush", <<>>, 0, FALSE)>>
    /\ nops = 0
    /\ opened = TRUE
    /\ device = "open"
    /\ closes = 0
    /\ ncloses = 0
    /\ life = {"samba", "port"}
    /\ main = MainOff
    /\ sing = SingOff

NextDecode == ChipInfo(NoFault)

SpecDecode == InitDecode /\ [][NextDecode]_vars

(***************************************************************************)
(* main of src/atenka/atenka-cl.py, from the opening of the port to the    *)
(* end of the process.  main has no try statement around its calls on the  *)
(* driver and calls Port.close nowhere: an exception of a call ends main,  *)
(* and the port is closed only if a destructor runs.  When main ends, its  *)
(* locals are gone, but ModGPIO._instance and ModFlash._instance, once     *)
(* constructed, still refer to the driver; objects that exist when the     *)
(* interpreter exits may or may not have their __del__ called.             *)
(***************************************************************************)
\* 0x400A0000, and the offsets of ModFlash.REGISTERS.
FLASH_BASE_ADDRESS == 1074397184
FlashOffsets == {0, 4, 8, 12, 16, 20, 24, 1032, 1036, 1056, 1060, 1064, 1068, 1072,
                 1076, 1276}
GpioOffsets == {REGISTERS[r].offset : r \in DOMAIN REGISTERS}

\* sorted(...): the numbers of S in ascending order.
RECURSIVE Sorted(_)
Sorted(S) ==
    IF S = {} THEN <<>>
    ELSE LET least == CHOOSE x \in S : \A y \in S : x <= y
         IN  <<least>> \o Sorted(S \ {least})

MainStep(call, addr, length) == [call |-> call, addr |-> addr, length |-> length]

\* dumpModule: readLong of every register of the module, by offset.
dumpModule(base, offsets) ==
    LET byOffset == Sorted(offsets)
    IN  [i \in 1..Len(byOffset) |-> MainStep("readLong", FromInt(base + byOffset[i]), 4)]

\* main transfers 255 and 4 bytes, less than a chunk of 4000: here, too,
\* lengths that need a single command.
MainLength == MAX_PAYLOAD - 1

\* The calls of main after Samba(port), in order; main.todo holds those
\* still to be made.
MainCalls ==
    <<MainStep("chipId", <<>>, 0),
      MainStep("chipInfo", <<>>, 0),
      MainStep("receiveFile", <<0, 32, 0, 32>>, MainLength),
      MainStep("sendFile", <<0, 32, 0, 32>>, 0),
      MainStep("receiveFile", <<0, 32, 0, 32>>, MainLength),
      MainStep("receiveFile", CHIP_ID_ADDR, Min(4, MainLength)),
      MainStep("ModGPIO", <<>>, 0),
      MainStep("ModFlash", <<>>, 0)>>
    \o dumpModule(GPIO_BASE_ADDRESS, GpioOffsets)
    \o dumpModule(FLASH_BASE_ADDRESS, FlashOffsets)

\* How the call c of main ends when its reads suffer the fault f.
MainRun(c, f) ==
    CASE c.call = "chipId" -> chipId(Env, LoseAt(f, 1), hostBigEndian)
      [] c.call = "chipInfo" -> chipInfo(Env, f, hostBigEndian)
      [] c.call = "receiveFile" -> receiveFile(Env, c.addr, c.length, f)
      [] c.call = "sendFile" -> sendFile(Env, c.addr, main.data)
      [] c.call = "readLong" ->
             _readUnit(Env, READ_WORD, c.addr, 4, LoseAt(f, 1), hostBigEndian)
      [] c.call \in ModuleClasses -> Returned(Env, "none", <<>>, <<>>)

\* main after its call c ended as r: an exception ends main; so does the
\* last call.
MainAfter(c, r) ==
    IF r.status # "ok" THEN [main EXCEPT !.phase = "exit"]
    ELSE [main EXCEPT
             !.todo = Tail(@),
             !.phase = (IF Len(main.todo) = 1 THEN "exit" ELSE "run"),
             !.data = (IF c.call = "receiveFile" THEN r.bytes ELSE @),
             !.modules = (IF c.call \in ModuleClasses THEN @ \cup {c.call} ELSE @)]

\* The state after the call c of main that ended as r0.
FinishMain(r0, o, c) == \E r \in {r0} :
    /\ mem' = r.t.mem
    /\ pending' = r.t.pending
    /\ rx' = r.t.rx
    /\ log' = r.t.log
    /\ res' = [status |-> r.status, kind |-> r.kind, int |-> r.int, bytes |-> r.bytes]
    /\ op' = o
    /\ nops' = nops + 1
    /\ main' = MainAfter(c, r)
    /\ UNCHANGED <<interactive, hostBigEndian, opened, device, closes, ncloses, life, sing>>

\* main was started with a command; no port is open yet.
InitMain ==
    /\ mem = <<>>
    /\ pending = NoPending
    /\ rx = <<>>
    /\ interactive = "None"
    /\ hostBigEndian = FALSE
    /\ op = OpRec("main", <<>>, 0, <<>>, <<>>, 0, NoFault)
    /\ res = [status |-> "ok", kind |-> "none", int |-> <<>>, bytes |-> <<>>]
    /\ log = <<>>
    /\ nops = 0
    /\ opened = FALSE
    /\ device = "none"
    /\ closes = 0
    /\ ncloses = 0
    /\ life = {}
    /\ main = [phase |-> "start", todo |-> MainCalls, data |-> <<>>, modules |-> {}]
    /\ sing = SingOff

\* `port = Port(options.comport)` and `smb = Samba(port)`; when the open
\* fails, sys.exit(1).
MainOpen(ok) ==
    /\ main.phase = "start"
    /\ opened' = ok
    /\ device' = (IF ok THEN "open" ELSE "none")
    /\ life' = (IF ok THEN {"samba", "port"} ELSE {"port"})
    /\ log' = (IF ok THEN <<Call("flush", <<>>, 0, FALSE)>> ELSE <<>>)
    /\ res' = [status |-> (IF ok THEN "ok" ELSE "SerialException"),
               kind |-> "none", int |-> <<>>, bytes |-> <<>>]
    /\ op' = OpRec("__init__", <<>>, 0, <<>>, <<>>, 0, NoFault)
    /\ main' = [main EXCEPT !.phase = (IF ok THEN "run" ELSE "exit")]
    /\ UNCHANGED <<mem, pending, rx, interactive, hostBigEndian, nops, closes, ncloses,
                   sing>>

\* The next call of main.
MainCall(f) ==
    /\ main.phase = "run"
    /\ \E c \in {Head(main.todo)} :
          FinishMain(MainRun(c, f), OpRec(c.call, c.addr, 0, <<>>, <<>>, c.length, f), c)

\* The process ends, whether or not the destructors have run.
MainEnd ==
    /\ main.phase = "exit"
    /\ main' = [main EXCEPT !.phase = "done"]
    /\ UNCHANGED <<mem, pending, rx, interactive, hostBigEndian, op, res, log, nops,
                   opened, device, closes, ncloses, life, sing>>

NextMain ==
    \/ \E ok \in BOOLEAN : MainOpen(ok)
    \/ \E f \in UnitFaults : MainCall(f)
    \/ main.phase = "exit" /\ SambaDel
    \/ main.phase = "exit" /\ PortDel
    \/ MainEnd

SpecMain == InitMain /\ [][NextMain]_vars

(***************************************************************************)
(* SingletonBase.__new__ (src/atenka/atenka-cl.py), run by several         *)
(* threads.  A step is one statement; the interpreter may switch threads   *)
(* between any two.                                                        *)
(***************************************************************************)
\* The class in whose __dict__ the lookup of c._instance ends, "none" when
\* no class of the lookup order has the attribute.
RECURSIVE FoundIn(_, _)
FoundIn(attr, mro) ==
    IF mro = <<>> THEN "none"
    ELSE IF attr[Head(mro)] # NoInstance THEN Head(mro)
    ELSE FoundIn(attr, Tail(mro))

\* hasattr(cls, '_instance') and cls._instance.
HasInstance(attr, c) == FoundIn(attr, Mro(c)) # "none"
GetInstance(attr, c) == attr[FoundIn(attr, Mro(c))]

\* The class whose attribute `cls._instance = ...` sets.
\* A bug: the attribute is set on SingletonBase, for all subclasses at once.
AssignedClass_base(c) == "SingletonBase"
AssignedClass(c) == c

\* The state after a step of thread th that leaves it at `to`.
SingStep(th, to, next) ==
    /\ sing' = [next EXCEPT !.pc[th] = to]
    /\ UNCHANGED <<mem, pending, rx, interactive, hostBigEndian, op, res, log, nops,
                   opened, device, closes, ncloses, life, main>>

\* A thread calls ModGPIO(...) or ModFlash(...).
SingCall(th, c) ==
    /\ sing.pc[th] = "off"
    /\ SingStep(th, "check1", [sing EXCEPT !.cls[th] = c])

\* `if not hasattr(cls, '_instance'):`, the outer one.
SingCheck1(th) ==
    /\ sing.pc[th] = "check1"
    /\ SingStep(th, IF HasInstance(sing.attr, sing.cls[th]) THEN "return" ELSE "acquire", sing)

\* `cls._lock.acquire()`: blocks while another thread holds the lock.
SingAcquire(th) ==
    /\ sing.pc[th] = "acquire"
    /\ sing.lock = 0
    /\ SingStep(th, "check2", [sing EXCEPT !.lock = th])

\* A bug: no second check; who gets the lock creates.
SingCheck2_none(th) ==
    /\ sing.pc[th] = "check2"
    /\ SingStep(th, "create", sing)
\* `if not hasattr(cls, '_instance'):`, the inner one.
SingCheck2(th) ==
    /\ sing.pc[th] = "check2"
    /\ SingStep(th, IF HasInstance(sing.attr, sing.cls[th]) THEN "release" ELSE "create", sing)

\* `cls._instance = super(SingletonBase, cls).__new__(cls)`.
SingCreate(th) ==
    /\ sing.pc[th] = "create"
    /\ LET c == sing.cls[th]
           obj == [cls |-> c, n |-> sing.created[c] + 1]
       IN  SingStep(th, "release",
                    [sing EXCEPT !.created[c] = @ + 1, !.attr[AssignedClass(c)] = obj])

\* The same statement when the allocation raises MemoryError.
SingCreateFails(th) ==
    /\ sing.pc[th] = "create"
    /\ SingStep(th, "release", [sing EXCEPT !.raised[th] = "MemoryError"])

\* `finally: cls._lock.release()`; an exception on its way goes on to the caller.
SingRelease(th) ==
    /\ sing.pc[th] = "release"
    /\ SingStep(th, IF sing.raised[th] = "ok" THEN "return" ELSE "done",
                [sing EXCEPT !.lock = 0])

\* `return cls._instance`.
SingReturn(th) ==
    /\ sing.pc[th] = "return"
    /\ SingStep(th, "done", [sing EXCEPT !.ret[th] = GetInstance(sing.attr, sing.cls[th])])

NextSingleton ==
    \/ \E th \in Threads, c \in ModuleClasses : SingCall(th, c)
    \/ \E th \in Threads : SingCheck1(th)
    \/ \E th \in Threads : SingAcquire(th)
    \/ \E th \in Threads : SingCheck2(th)
    \/ \E th \in Threads : SingCreate(th)
    \/ \E th \in Threads : SingCreateFails(th)
    \/ \E th \in Threads : SingRelease(th)
    \/ \E th \in Threads : SingReturn(th)

SpecSingleton == InitBulk /\ [][NextSingleton]_vars

(***************************************************************************)
(* The life of a port: Port.__init__ opens the device or fails; the driver *)
(* is used while the port is open; the caller closes the port any number   *)
(* of times; the destructors run.                                          *)
(***************************************************************************)
\* Port.__init__ returned, and Samba.__init__ after it, or Port.__init__
\* raised serial.SerialException.
InitPort ==
    /\ \E ok \in BOOLEAN :
          /\ opened = ok
          /\ device = (IF ok THEN "open" ELSE "none")
          /\ life = (IF ok THEN {"samba", "port"} ELSE {"port"})
          /\ log = (IF ok THEN <<Call("flush", <<>>, 0, FALSE)>> ELSE <<>>)
          /\ res = [status |-> (IF ok THEN "ok" ELSE "SerialException"),
                    kind |-> "none", int |-> <<>>, bytes |-> <<>>]
    /\ main = MainOff
    /\ sing = SingOff
    /\ mem = <<>>
    /\ pending = NoPending
    /\ rx = <<>>
    /\ interactive = "None"
    /\ hostBigEndian = FALSE
    /\ op = OpRec("__init__", <<>>, 0, <<>>, <<>>, 0, NoFault)
    /\ nops = 0
    /\ closes = 0
    /\ ncloses = 0

\* The driver and its port exist and the port was not closed.
InUse == life = {"samba", "port"} /\ opened

NextPort ==
    \/ Close
    \/ SambaDel
    \/ PortDel
    \/ InUse /\ \E a \in UnitAddrs, v \in Values : writeLong(a, v)
    \/ InUse /\ \E a \in UnitAddrs, f \in UnitFaults : readLong(a, f)

SpecPort == InitPort /\ [][NextPort]_vars

TypeOK ==
    /\ nops \in 0..MaxOps
    /\ ncloses \in 0..MaxCloses
    /\ res.status \in {"ok", "TimeoutError", "struct.error", "SerialException",
                        "AttributeError", "SerialTimeoutException",
                        "RegisterNotDefinedError", "InterfaceNotSupportedError"}

(***************************************************************************)
(* Reading the log: the chunk commands of a bulk transfer.                 *)
(***************************************************************************)
\* A write of exactly one bulk command frame: S or R, 8 digits, a comma,
\* 8 digits, the terminator.
IsBulkCmd(c) ==
    /\ c.call = "write"
    /\ Len(c.data) = 20
    /\ c.data[1] \in {WRITE, READ}
    /\ IsHex(SubSeq(c.data, 2, 9))
    /\ c.data[10] = Ord(",")
    /\ IsHex(SubSeq(c.data, 11, 18))
    /\ SubSeq(c.data, 19, 20) = TERM

BulkOpcode(name) == IF name = "sendFile" THEN WRITE ELSE READ
IsBulk(o) == o.name \in {"sendFile", "receiveFile"}

\* The address and the chunk length a command frame advertises.
CmdAddr(c) == ParseHex(SubSeq(c.data, 2, 9))
CmdLen(c) == ToInt(ParseHex(SubSeq(c.data, 11, 18)))

\* The chunk commands of the log, in the order they were written.
Cmds == SelectSeq(log, IsBulkCmd)

Ceil(a, b) == (a + b - 1) \div b

(***************************************************************************)
(* C1.  sendFile makes, for each chunk, exactly these calls in this order:  *)
(* a write of the command frame S<addr>,<chunkLen>#LF and nothing else, a  *)
(* flush, a write of the chunk's bytes and nothing else, a flush.  The     *)
(* whole log is a sequence of such groups, the payloads are the pieces of  *)
(* the data in order, and each frame advertises its payload's length.      *)
(***************************************************************************)
\* Offset in the data of the payload of group g (groups count from 0).
RECURSIVE PayloadOffset(_)
PayloadOffset(g) == IF g = 0 THEN 0 ELSE PayloadOffset(g - 1) + Len(log[4 * (g - 1) + 3].data)

C1_SendFileCallOrder ==
    op.name = "sendFile" =>
        /\ Len(log) % 4 = 0
        /\ \A g \in 0..((Len(log) \div 4) - 1) :
            LET cmd == log[4 * g + 1]
                pay == log[4 * g + 3]
            IN  /\ IsBulkCmd(cmd) /\ cmd.data[1] = WRITE
                /\ log[4 * g + 2].call = "flush"
                /\ pay.call = "write"
                /\ pay.data = SubSeq(op.data, PayloadOffset(g) + 1,
                                     PayloadOffset(g) + CmdLen(cmd))
                /\ Len(pay.data) = CmdLen(cmd)
                /\ log[4 * g + 4].call = "flush"

C1_Witness ==
    /\ op.name = "sendFile"
    /\ op.length = 3 * MAX_PAYLOAD + 7
    /\ Len(log) >= 16

(***************************************************************************)
(* C2.  A bulk transfer of L bytes that runs to its end issues exactly     *)
(* ceil(L / MAX_PAYLOAD) chunk commands; all but the last advertise        *)
(* MAX_PAYLOAD, the last advertises L mod MAX_PAYLOAD, or MAX_PAYLOAD when *)
(* L is a nonzero multiple of MAX_PAYLOAD.                                 *)
(***************************************************************************)
C2_ChunkCount ==
    (IsBulk(op) /\ res.status = "ok") =>
        LET n == Len(Cmds)
            L == op.length
        IN  /\ n = Ceil(L, MAX_PAYLOAD)
            /\ \A k \in 1..n : Cmds[k].data[1] = BulkOpcode(op.name)
            /\ \A k \in 1..(n - 1) : CmdLen(Cmds[k]) = MAX_PAYLOAD
            /\ n > 0 => CmdLen(Cmds[n]) = (IF L % MAX_PAYLOAD = 0 THEN MAX_PAYLOAD
                                           ELSE L % MAX_PAYLOAD)

C2_Witness ==
    /\ op.name = "receiveFile"
    /\ res.status = "ok"
    /\ op.length = 3 * MAX_PAYLOAD + 7
    /\ Len(Cmds) >= 4
    /\ CmdLen(Cmds[Len(Cmds)]) = (3 * MAX_PAYLOAD + 7) % MAX_PAYLOAD

(***************************************************************************)
(* C3.  In receiveFile every chunk command R<addr>,<chunkLen>#LF is        *)
(* followed by one read that asks for exactly the chunkLen it advertises   *)
(* (never for the length of the whole transfer); the buffer returned is    *)
(* the replies in the order read, and has exactly `length` bytes when      *)
(* every read delivered all it asked for.                                  *)
(***************************************************************************)
IsUnitRead(o) == o.name \in {"readLong", "readWord", "readByte"}
IsUnitWrite(o) == o.name \in {"writeLong", "writeWord", "writeByte"}

\* The bytes the reads log[1..i] delivered, in order.
RECURSIVE Replies(_)
Replies(i) ==
    IF i = 0 THEN <<>>
    ELSE Replies(i - 1) \o (IF log[i].call = "read" THEN log[i].data ELSE <<>>)

\* Some read of the log delivered fewer bytes than it asked for.
ShortRead == \E i \in 1..Len(log) : log[i].call = "read" /\ Len(log[i].data) < log[i].n

C3_ReadPerChunk ==
    op.name = "receiveFile" =>
        /\ \A i \in 1..Len(log) :
              IsBulkCmd(log[i]) =>
                  /\ i < Len(log)
                  /\ log[i + 1].call = "read"
                  /\ log[i + 1].n = CmdLen(log[i])
        /\ res.status = "ok" => res.bytes = Replies(Len(log))
        /\ (res.status = "ok" /\ ~ShortRead) => Len(res.bytes) = op.length

(***************************************************************************)
(* C4.  Port.read(n), n > 0, raises TimeoutError whenever fewer than n     *)
(* bytes arrived before the timeout, also when some did; it returns only   *)
(* when exactly n bytes arrived.                                           *)
(***************************************************************************)
C4_PortReadExact ==
    \A i \in 1..Len(log) :
        (log[i].call = "read" /\ log[i].n > 0) =>
            (log[i].raised <=> Len(log[i].data) < log[i].n)

(***************************************************************************)
(* C5.  When a reply arrives short (no byte, or some but not all), a unit  *)
(* read and receiveFile end with TimeoutError: no integer is decoded from  *)
(* fewer than the unit's bytes and no buffer shorter than the length asked *)
(* for is returned.                                                        *)
(***************************************************************************)
C5_ShortReplyTimesOut ==
    (IsUnitRead(op) \/ op.name = "receiveFile") =>
        /\ ShortRead => res.status = "TimeoutError"
        /\ res.kind = "int" => Len(Replies(Len(log))) = op.size
        /\ res.kind = "bytes" => Len(res.bytes) = op.length

(***************************************************************************)
(* C6.  sendFile(addr, data) followed by receiveFile(addr, len(data)), the *)
(* target executing the S and R commands and every byte it sends arriving, *)
(* returns a buffer equal to data; the lengths tried include 0, 1,         *)
(* MAX_PAYLOAD - 1, MAX_PAYLOAD, MAX_PAYLOAD + 1 and 3 * MAX_PAYLOAD + 7.  *)
(***************************************************************************)
C6_RoundTrip ==
    [][(/\ op.name = "sendFile"
        /\ op'.name = "receiveFile"
        /\ nops' = nops + 1
        /\ op'.addr = op.addr
        /\ op'.length = Len(op.data)
        /\ op'.fault = NoFault)
       => (res'.status = "ok" /\ res'.kind = "bytes" /\ res'.bytes = op.data)]_vars

C6_Witness ==
    /\ op.name = "receiveFile"
    /\ op.fault = NoFault
    /\ op.length = 3 * MAX_PAYLOAD + 7
    /\ res.status = "ok"
    /\ res.bytes = Data(3 * MAX_PAYLOAD + 7)

(***************************************************************************)
(* C7.  sendFile of no data and receiveFile of length 0 call the port not  *)
(* at all, and receiveFile returns an empty buffer; and no bulk transfer,  *)
(* whatever its length, issues a command that advertises 0 bytes.          *)
(***************************************************************************)
C7_ZeroLengthNoOp ==
    IsBulk(op) =>
        /\ op.length = 0 =>
              /\ log = <<>>
              /\ res.status = "ok"
              /\ op.name = "receiveFile" => (res.kind = "bytes" /\ res.bytes = <<>>)
        /\ \A i \in 1..Len(log) : IsBulkCmd(log[i]) => CmdLen(log[i]) > 0
        /\ (op.length > 0 /\ op.length % MAX_PAYLOAD = 0 /\ res.status = "ok") =>
              CmdLen(Cmds[Len(Cmds)]) = MAX_PAYLOAD

C7_Witness ==
    /\ op.name = "receiveFile"
    /\ op.length = 0
    /\ nops = 2
    /\ log = <<>>
    /\ res.bytes = <<>>

(***************************************************************************)
(* C8.  The chunk commands of a bulk transfer go out in ascending address  *)
(* order: the first carries the caller's address, each later one the       *)
(* address of the one before plus the length that one advertised, so that  *)
(* the chunks of a completed transfer cover [addr, addr + length) without  *)
(* gap or overlap.                                                         *)
(***************************************************************************)
RECURSIVE SumLen(_)
SumLen(k) == IF k = 0 THEN 0 ELSE SumLen(k - 1) + CmdLen(Cmds[k])

C8_ChunkAddresses ==
    IsBulk(op) =>
        LET n == Len(Cmds)
        IN  /\ n > 0 => CmdAddr(Cmds[1]) = Norm(op.addr)
            /\ \A k \in 1..(n - 1) :
                  /\ CmdLen(Cmds[k]) > 0
                  /\ CmdAddr(Cmds[k + 1]) = AddInt(CmdAddr(Cmds[k]), CmdLen(Cmds[k]))
            /\ res.status = "ok" => SumLen(n) = op.length

C8_Witness ==
    /\ op.name = "receiveFile"
    /\ res.status = "ok"
    /\ Len(Cmds) >= 3
    /\ CmdAddr(Cmds[3]) = AddInt(op.addr, 2 * MAX_PAYLOAD)

(***************************************************************************)
(* C9.  For a unit size u of 1, 2 or 4, a write of the value v at an       *)
(* address followed by a read of the same size at the same address, the    *)
(* target storing the unit and every byte of its reply arriving, returns   *)
(* v mod 2^(8u).                                                           *)
(***************************************************************************)
\* v mod 2^(8u), for v >= 0.
ModPow256(v, u) == Norm([i \in 1..u |-> IF i <= Len(v) THEN v[i] ELSE 0])

C9_WriteThenRead ==
    [][(/\ IsUnitWrite(op)
        /\ IsUnitRead(op')
        /\ nops' = nops + 1
        /\ op'.size = op.size
        /\ op'.addr = op.addr
        /\ op'.fault = NoFault)
       => (res'.status = "ok" /\ res'.kind = "int"
           /\ res'.int = ModPow256(op.value, op.size))]_vars

(***************************************************************************)
(* C10.  A unit write never fails on a value wider than the unit: it makes *)
(* one write of the frame <op><address as 8 hex digits>,<value mod 2^(8u)  *)
(* as exactly 2u upper-case hex digits>#LF.  writeLong(0, 0xDEADBEEF)      *)
(* writes exactly W00000000,DEADBEEF#LF.                                   *)
(***************************************************************************)
WriteOpcode(name) ==
    CASE name = "writeLong" -> Ord("W")
      [] name = "writeWord" -> Ord("H")
      [] name = "writeByte" -> Ord("O")

C10_WriteUnitFrame ==
    IsUnitWrite(op) =>
        /\ res.status = "ok"
        /\ Len(log) = 1
        /\ log[1].call = "write"
        /\ LET d == log[1].data
               u == op.size
           IN  /\ Len(d) = 12 + 2 * u
               /\ d[1] = WriteOpcode(op.name)
               /\ IsHex(SubSeq(d, 2, 9))
               /\ ParseHex(SubSeq(d, 2, 9)) = Norm(op.addr)
               /\ d[10] = Ord(",")
               /\ IsHex(SubSeq(d, 11, 10 + 2 * u))
               /\ ParseHex(SubSeq(d, 11, 10 + 2 * u)) = ModPow256(op.value, u)
               /\ SubSeq(d, 11 + 2 * u, 12 + 2 * u) = Ascii(<<"#", "LF">>)
               /\ (op.name = "writeLong" /\ op.addr = <<>>
                      /\ op.value = <<239, 190, 173, 222>>) =>
                     d = Ascii(<<"W", "0", "0", "0", "0", "0", "0", "0", "0", ",",
                                 "D", "E", "A", "D", "B", "E", "E", "F", "#", "LF">>)

\* A half-word write of 0xDEADBEEF goes out as BEEF.
C10_Witness ==
    /\ op.name = "writeWord"
    /\ op.value = <<239, 190, 173, 222>>
    /\ log[1].data = Ascii(<<"H", "0", "0", "0", "0", "0", "0", "0", "0", ",",
                             "B", "E", "E", "F", "#", "LF">>)

(***************************************************************************)
(* C11.  A unit read of u bytes (u = 1, 2, 4) makes exactly one write, of  *)
(* its command frame, then exactly one read that asks for exactly u bytes, *)
(* and returns the unsigned integer whose little-endian encoding is the    *)
(* u bytes read (byte 0 least significant), whatever the width.            *)
(***************************************************************************)
C11_ReadUnitLittleEndian ==
    IsUnitRead(op) =>
        /\ Len(log) = 2
        /\ log[1].call = "write"
        /\ log[2].call = "read"
        /\ log[2].n = op.size
        /\ res.status = "ok" => (res.kind = "int" /\ res.int = Norm(log[2].data))

(***************************************************************************)
(* Reading the log: the command frames of any call.                        *)
(***************************************************************************)
\* log[i] is the write of a command (in sendFile the third call of each
\* group of four writes a payload).
IsCmdWrite(i) ==
    /\ log[i].call = "write"
    /\ ~(op.name = "sendFile" /\ i % 4 = 3)

\* The opcodes whose frame carries an address.
AddressedOpcodes == {WRITE_WORD, READ_WORD, WRITE_HALF_WORD, READ_HALF_WORD,
                     WRITE_OCTET, READ_OCTET, WRITE, READ, GO}

\* The field that starts at position `from` of the frame d is exactly 8
\* upper-case hexadecimal digits: 8 digits, and no digit follows them.
HexField8(d, from) ==
    /\ Len(d) >= from + 7
    /\ IsHex(SubSeq(d, from, from + 7))
    /\ (Len(d) = from + 7 \/ ~IsHexDigit(d[from + 8]))

C13_TerminatorOnEveryCommand ==
    \A i \in 1..Len(log) :
        IsCmdWrite(i) =>
            /\ Len(log[i].data) >= 2
            /\ SubSeq(log[i].data, Len(log[i].data) - 1, Len(log[i].data)) = TERM

(***************************************************************************)
(* C14.  version() writes the frame V#LF, then makes one read on the port  *)
(* and returns the bytes of that read as the version string.               *)
(***************************************************************************)
C14_VersionReadsReply ==
    op.name = "version" =>
        /\ Len(log) = 2
        /\ log[1].call = "write"
        /\ log[1].data = Ascii(<<"V", "#", "LF">>)
        /\ log[2].call = "read"
        /\ res.status = "ok" => (res.kind = "bytes" /\ res.bytes = log[2].data)

(***************************************************************************)
(* C15.  Only interactive() and nonInteractive() change the mode flag of   *)
(* the driver: a call of any other operation (unit read or write, bulk     *)
(* transfer, go, version, chipId, exId, chipInfo), also one that ends in   *)
(* a timeout error, leaves the flag as it was before the call.             *)
(***************************************************************************)
C15_ModeOnlyExplicit ==
    [][(nops' = nops + 1 /\ op'.name \notin {"interactive", "nonInteractive"})
       => interactive' = interactive]_vars

\* The mode chosen by interactive() is still there after a read that timed out.
C15_Witness ==
    /\ interactive = "True"
    /\ op.name = "chipInfo"
    /\ res.status = "TimeoutError"

(***************************************************************************)
(* Reading the log: the register reads of chipInfo.                        *)
(***************************************************************************)
IsWrite(c) == c.call = "write"
\* The frames written by the last call, in order.
Writes == SelectSeq(log, IsWrite)

\* w400E0740,4#LF and w400E0744,4#LF.
ChipIdFrame == Ascii(<<"w", "4", "0", "0", "E", "0", "7", "4", "0", ",", "4", "#", "LF">>)
ExIdFrame == Ascii(<<"w", "4", "0", "0", "E", "0", "7", "4", "4", ",", "4", "#", "LF">>)

\* The bytes of the two id registers of the target, least significant first.
RegChipId == MemRange(mem, <<64, 7, 14, 64>>, 4)
RegExId == MemRange(mem, <<68, 7, 14, 64>>, 4)

\* The read of the chip id delivered all four bytes.
ChipIdRead == Len(log) >= 2 /\ log[2].call = "read" /\ Len(log[2].data) = 4

(***************************************************************************)
(* C16.  chipInfo first reads the Chip-ID register at 0x400E0740.  When    *)
(* bit 31 of the value read is clear, that is its only register read: the  *)
(* extended-ID register at 0x400E0744 is not read, LCD, USB, USB-full and  *)
(* AES are reported false and the package as a sentinel, no package name.  *)
(* When bit 31 is set, the extended-ID register is read exactly once,      *)
(* after the Chip-ID.                                                      *)
(***************************************************************************)
C16_ExtendedReadGated ==
    op.name = "chipInfo" =>
        /\ Len(Writes) \in {1, 2}
        /\ log[1].call = "write" /\ log[1].data = ChipIdFrame
        /\ Len(Writes) = 2 => (ChipIdRead /\ log[3].call = "write" /\ log[3].data = ExIdFrame)
        /\ (ChipIdRead /\ log[2].data[4] < 128) =>
              /\ Len(Writes) = 1
              /\ res.status = "ok"
              /\ ~res.info.ext
              /\ ~res.info.lcd /\ ~res.info.usb /\ ~res.info.usbfull /\ ~res.info.aes
              /\ res.info.package \in {PyStr("*** Unknown ***"), PyStr("*** Reserved ***")}
        /\ (ChipIdRead /\ log[2].data[4] >= 128) =>
              /\ Len(Writes) = 2
              /\ Len(log) = 4
              /\ log[4].call = "read"

\* 0x2B0B0AE0: the chip id 0xAB0B0AE0 without its bit 31.
C16_Witness ==
    /\ op.name = "chipInfo"
    /\ res.status = "ok"
    /\ log[2].data = <<224, 10, 11, 43>>
    /\ Len(log) = 2
    /\ ~res.info.ext
    /\ res.info.nvpType = Info("FLASH")

(***************************************************************************)
(* C17 as stated.  With the Chip-ID register holding 0xAB0B0AE0 and every  *)
(* reply arriving, chipInfo resolves the NVM type, the architecture and    *)
(* the size fields and makes no second register read.                      *)
(***************************************************************************)
C17_Fields ==
    /\ res.status = "ok"
    /\ res.info.nvpType = Info("FLASH")
    /\ res.info.architecture = Info("SAM4L")
    /\ res.info.sramSize = Info("64K")
    /\ res.info.nvpSize0 = Info("512K")
    /\ res.info.nvpSize1 = Info("None")

C17_NoSecondRead ==
    (op.name = "chipInfo" /\ op.fault = NoFault /\ RegChipId = <<224, 10, 11, 171>>) =>
        (C17_Fields /\ Len(Writes) = 1)

(***************************************************************************)
(* C17 as amended.  0xAB0B0AE0 has its bit 31, the extended flag, set.     *)
(* When the read of the Chip-ID register delivers 0xAB0B0AE0, chipInfo     *)
(* makes exactly one more register read, of the extended-ID register at    *)
(* 0x400E0744, and when that read delivers four bytes it returns a record  *)
(* with NVM type FLASH, architecture SAM4L, SRAM size 64K and NVM sizes    *)
(* 512K and None.                                                          *)
(***************************************************************************)
C17_SecondReadOnce ==
    (op.name = "chipInfo" /\ ChipIdRead /\ log[2].data = <<224, 10, 11, 171>>) =>
        /\ Len(Writes) = 2
        /\ Len(log) = 4
        /\ log[3].data = ExIdFrame
        /\ log[4].call = "read"
        /\ Len(log[4].data) = 4 => (C17_Fields /\ res.info.ext)

C17_Witness ==
    /\ op.name = "chipInfo"
    /\ RegChipId = <<224, 10, 11, 171>>
    /\ Len(log) = 4
    /\ Len(log[4].data) = 4
    /\ res.info.architecture = Info("SAM4L")

(***************************************************************************)
(* C18.  With bit 31 of the Chip-ID register set, the extended-ID register *)
(* holding 0x00000000 and every reply arriving, chipInfo returns the       *)
(* package of code 0, "24-pin", and LCD, USB, USB-full and AES all false.  *)
(***************************************************************************)
C18_ZeroExtendedId ==
    (/\ op.name = "chipInfo"
     /\ op.fault = NoFault
     /\ RegChipId[4] >= 128
     /\ RegExId = <<0, 0, 0, 0>>) =>
        /\ res.status = "ok"
        /\ res.info.ext
        /\ res.info.package = PyStr("24-pin")
        /\ ~res.info.lcd /\ ~res.info.usb /\ ~res.info.usbfull /\ ~res.info.aes

C18_Witness ==
    /\ op.name = "chipInfo"
    /\ res.status = "ok"
    /\ Len(log) = 4
    /\ log[2].data = <<161, 196, 165, 217>>
    /\ log[4].data = <<0, 0, 0, 0>>
    /\ res.info.package = PyStr("24-pin")

(***************************************************************************)
(* C19.  Whatever the values of the Chip-ID and the extended-ID register,  *)
(* when every reply arrives chipInfo returns a complete record: each field *)
(* whose code is in its table carries the entry of the table, and each     *)
(* whose code is not (NVM type, architecture, SRAM size, NVM sizes,        *)
(* processor, package) carries the sentinel, *** Unknown *** and for the   *)
(* package *** Reserved ***.                                               *)
(***************************************************************************)
\* The value is the entry of the table for the code, or the sentinel when
\* the table has none.
Resolved(table, code, value, sentinel) ==
    IF code \in DOMAIN table THEN value = table[code] ELSE value = sentinel

C19_UnknownCodesResolve ==
    (op.name = "chipInfo" /\ op.fault = NoFault) =>
        /\ res.status = "ok"
        /\ res.kind = "DeviceCapabilities"
        /\ DOMAIN res.info = {"friendlyName", "nvpType", "architecture", "sramSize",
                              "nvpSize0", "nvpSize1", "processor", "version", "ext",
                              "package", "lcd", "usb", "usbfull", "aes"}
        /\ LET id == RegChipId
               ex == RegExId
           IN  /\ Resolved(NvpTypes, (id[4] \div 16) % 8, res.info.nvpType,
                           PyStr("*** Unknown ***"))
               /\ Resolved(Archs, (id[4] % 16) * 16 + (id[3] \div 16),
                           res.info.architecture, PyStr("*** Unknown ***"))
               /\ Resolved(SRamSizes, id[3] % 16, res.info.sramSize,
                           PyStr("*** Unknown ***"))
               /\ Resolved(NvpSizes, id[2] % 16, res.info.nvpSize0,
                           PyStr("*** Unknown ***"))
               /\ Resolved(NvpSiz2s, id[2] \div 16, res.info.nvpSize1,
                           PyStr("*** Unknown ***"))
               /\ Resolved(EProcs, id[1] \div 32, res.info.processor,
                           PyStr("*** Unknown ***"))
               /\ id[4] >= 128 =>
                     Resolved(Packages, ex[4] % 8, res.info.package,
                              PyStr("*** Reserved ***"))
               /\ id[4] < 128 => res.info.package = PyStr("*** Reserved ***")

\* 0xFFFFFFFF: no NVM type 7, no architecture 0xFF; no package 7.
C19_Witness ==
    /\ op.name = "chipInfo"
    /\ res.status = "ok"
    /\ RegChipId = <<255, 255, 255, 255>>
    /\ RegExId[4] % 8 = 7
    /\ res.info.nvpType = PyStr("*** Unknown ***")
    /\ res.info.architecture = PyStr("*** Unknown ***")
    /\ res.info.package = PyStr("*** Reserved ***")

(***************************************************************************)
(* C20.  Port.close is idempotent.  However many times close is called on  *)
(* a port that was opened, by the caller or by the destructors of the      *)
(* driver and of the port, the serial device is closed exactly once: the   *)
(* first call closes it, every later one does nothing and raises nothing.  *)
(* On a port whose open failed no call touches the device.                 *)
(***************************************************************************)
IsCloseCall(o) == o.name \in {"close", "Port.__del__", "Samba.__del__"}

C20_CloseIdempotent ==
    /\ closes <= 1
    /\ device = "none" => closes = 0
    /\ IsCloseCall(op) =>
          /\ ncloses >= 1
          /\ res.status = "ok"
          /\ ~opened
          /\ device \in {"none", "closed"}
          /\ device = "closed" => closes = 1

\* The caller closed the port, then both destructors ran.
C20_Witness ==
    /\ ncloses >= 3
    /\ op.name = "Port.__del__"
    /\ life = {}
    /\ device = "closed"
    /\ closes = 1

(***************************************************************************)
(* C22.  No driver operation retries.  When a Port.read or a Port.write    *)
(* made by a single-unit or a bulk method raises, it is the last transport  *)
(* call of that method call, the caller gets that exception, and no frame  *)
(* was written twice during the call.                                      *)
(***************************************************************************)
IsDriverOp(o) ==
    o.name \in {"writeLong", "writeWord", "writeByte", "readLong", "readWord",
                "readByte", "sendFile", "receiveFile"}

C22_NoRetry ==
    IsDriverOp(op) =>
        /\ \A i \in 1..Len(log) :
               log[i].raised =>
                   /\ i = Len(log)
                   /\ res.status = (IF log[i].call = "read" THEN "TimeoutError"
                                    ELSE "SerialTimeoutException")
        /\ \A i, j \in 1..Len(log) :
               (/\ i < j
                /\ log[i].call = "write"
                /\ log[j].call = "write"
                /\ Len(log[i].data) > 0) => log[i].data # log[j].data

\* The read of the first of three chunks timed out: receiveFile made no
\* further call.
C22_Witness ==
    /\ op.name = "receiveFile"
    /\ op.length = 2 * MAX_PAYLOAD + 1
    /\ Len(log) = 2
    /\ log[2].call = "read"
    /\ log[2].raised
    /\ res.status = "TimeoutError"

(***************************************************************************)
(* C23.  An access through ModGPIO that the named register does not         *)
(* support - a name that is not in the table, set, clear or toggle on a    *)
(* register without the extended interface, a read of a write-only         *)
(* register, a write of a read-only register - ends with an error, and no  *)
(* transport call was made.                                                *)
(***************************************************************************)
IsGpioOp(o) ==
    o.name \in {"ModGPIO.read", "ModGPIO.write", "ModGPIO.set", "ModGPIO.clear",
                "ModGPIO.toggle"}

Unsupported(o) ==
    \/ o.reg \notin DOMAIN REGISTERS
    \/ /\ o.reg \in DOMAIN REGISTERS
       /\ \/ o.name \in {"ModGPIO.set", "ModGPIO.clear", "ModGPIO.toggle"}
             /\ ~REGISTERS[o.reg].extInterface
          \/ o.name = "ModGPIO.read" /\ REGISTERS[o.reg].access = ACC_WO
          \/ o.name = "ModGPIO.write" /\ REGISTERS[o.reg].access = ACC_RO

C23_UnsupportedRejected ==
    (IsGpioOp(op) /\ Unsupported(op)) => (res.status # "ok" /\ log = <<>>)

(***************************************************************************)
(* C24.  The opcode follows the unit size and the direction: a read of 4,  *)
(* 2, 1 bytes sends w, h, o and a write of 4, 2, 1 bytes sends W, H, O.    *)
(* The frame of a unit read is the opcode, the address as 8 hexadecimal    *)
(* digits, a comma, the unit size in decimal, '#' and LF, nothing else.    *)
(***************************************************************************)
UnitOpcode(isRead, size) ==
    CASE isRead /\ size = 4 -> Ord("w")
      [] isRead /\ size = 2 -> Ord("h")
      [] isRead /\ size = 1 -> Ord("o")
      [] ~isRead /\ size = 4 -> Ord("W")
      [] ~isRead /\ size = 2 -> Ord("H")
      [] ~isRead /\ size = 1 -> Ord("O")

SizeDigit(size) ==
    CASE size = 4 -> Ord("4") [] size = 2 -> Ord("2") [] size = 1 -> Ord("1")

C24_OpcodeBySize ==
    /\ IsUnitRead(op) =>
          /\ Len(log) = 2
          /\ log[1].call = "write"
          /\ log[2].call = "read"
          /\ LET d == log[1].data
             IN  /\ Len(d) = 13
                 /\ d[1] = UnitOpcode(TRUE, op.size)
                 /\ IsHex(SubSeq(d, 2, 9))
                 /\ ParseHex(SubSeq(d, 2, 9)) = Norm(op.addr)
                 /\ d[10] = Ord(",")
                 /\ d[11] = SizeDigit(op.size)
                 /\ d[12] = Ord("#")
                 /\ d[13] = Ord("LF")
    /\ IsUnitWrite(op) =>
          /\ Len(log) = 1
          /\ log[1].call = "write"
          /\ log[1].data[1] = UnitOpcode(FALSE, op.size)

\* readWord(0x20006000) sent h20006000,2#LF.
C24_Witness ==
    /\ op.name = "readWord"
    /\ op.addr = <<0, 96, 0, 32>>
    /\ log[1].data = Ascii(<<"h", "2", "0", "0", "0", "6", "0", "0", "0", ",", "2", "#", "LF">>)

(***************************************************************************)
(* C25.  A unit write makes exactly one transport write, no read and no    *)
(* flush: the bytes that were waiting in the input buffer of the port      *)
(* before the call are still there after it, for the next read to find.    *)
(***************************************************************************)
C25_WriteUnitOnlyWrites ==
    [][(IsUnitWrite(op') /\ nops' = nops + 1) =>
           /\ Len(log') = 1
           /\ log'[1].call = "write"
           /\ ~log'[1].raised
           /\ rx' = rx]_vars

\* A unit write was made while the reply to version() was waiting unread.
C25_Witness ==
    /\ IsUnitWrite(op)
    /\ Len(log) = 1
    /\ rx = Ascii(<<"V", "1", "LF">>)

(***************************************************************************)
(* C26.  interactive() writes exactly T, '#', LF and leaves the driver in  *)
(* Interactive mode; nonInteractive() writes exactly N, '#', LF and leaves *)
(* it in Non-Interactive mode.  Neither reads nor flushes.  So after any   *)
(* sequence of the two the mode is the one the last call selected.         *)
(***************************************************************************)
C26_ModeCommands ==
    /\ op.name = "interactive" =>
          /\ log = <<Call("write", Ascii(<<"T", "#", "LF">>), 3, FALSE)>>
          /\ interactive = "True"
          /\ res.status = "ok"
    /\ op.name = "nonInteractive" =>
          /\ log = <<Call("write", Ascii(<<"N", "#", "LF">>), 3, FALSE)>>
          /\ interactive = "False"
          /\ res.status = "ok"

\* The second call of a sequence was nonInteractive().
C26_Witness ==
    /\ nops = 2
    /\ op.name = "nonInteractive"
    /\ interactive = "False"
    /\ log[1].data = Ascii(<<"N", "#", "LF">>)

(***************************************************************************)
(* C27.  chipInfo takes each field from fixed bits of the chip id: the     *)
(* extension flag from bit 31, the NVM type from bits 28-30, the            *)
(* architecture from bits 20-27, the SRAM size from bits 16-19, the        *)
(* secondary NVM size from bits 12-15, the primary NVM size from bits      *)
(* 8-11, the processor from bits 5-7 and the version from bits 0-4; and,   *)
(* when the extension flag is set, the package from bits 24-26 of the      *)
(* extended id and LCD, USB-full, USB, AES from its bits 3, 2, 1, 0, each  *)
(* flag from its own bit whatever the other bits are.                      *)
(***************************************************************************)
\* Bit i of the register whose four bytes are reg, lowest byte first.
RegBit(reg, i) == (reg[(i \div 8) + 1] \div (2 ^ (i % 8))) % 2

\* The number in bits lo..hi of the register.
RECURSIVE RegBits(_, _, _)
RegBits(reg, lo, hi) ==
    IF hi < lo THEN 0 ELSE RegBit(reg, lo) + 2 * RegBits(reg, lo + 1, hi)

C27_FieldBits ==
    (op.name = "chipInfo" /\ res.status = "ok") =>
        LET id == RegChipId
            ex == RegExId
            info == res.info
        IN  /\ info.ext = (RegBit(id, 31) = 1)
            /\ Resolved(NvpTypes, RegBits(id, 28, 30), info.nvpType, PyStr("*** Unknown ***"))
            /\ Resolved(Archs, RegBits(id, 20, 27), info.architecture,
                        PyStr("*** Unknown ***"))
            /\ info.sramSize = SRamSizes[RegBits(id, 16, 19)]
            /\ info.nvpSize1 = NvpSiz2s[RegBits(id, 12, 15)]
            /\ info.nvpSize0 = NvpSizes[RegBits(id, 8, 11)]
            /\ Resolved(EProcs, RegBits(id, 5, 7), info.processor, PyStr("*** Unknown ***"))
            /\ info.version = RegBits(id, 0, 4)
            /\ RegBit(id, 31) = 1 =>
                  /\ Resolved(Packages, RegBits(ex, 24, 26), info.package,
                              PyStr("*** Reserved ***"))
                  /\ info.lcd = (RegBit(ex, 3) = 1)
                  /\ info.usbfull = (RegBit(ex, 2) = 1)
                  /\ info.usb = (RegBit(ex, 1) = 1)
                  /\ info.aes = (RegBit(ex, 0) = 1)

\* An extended id with the USB-full bit alone: of the four flags only
\* usbfull is set.
C27_Witness ==
    /\ op.name = "chipInfo"
    /\ res.status = "ok"
    /\ RegBit(RegChipId, 31) = 1
    /\ RegExId = <<4, 0, 0, 0>>
    /\ res.info.usbfull
    /\ ~res.info.usb
    /\ ~res.info.lcd
    /\ ~res.info.aes

(***************************************************************************)
(* C28.  In sendFile the payload written after each chunk command has      *)
(* exactly the length that command advertises, and the payloads of all     *)
(* chunks, one after the other in the order written, are the data argument. *)
(***************************************************************************)
\* The writes of the log that are no command frames, in order, as one string.
RECURSIVE Payloads(_)
Payloads(n) ==
    IF n = 0 THEN <<>>
    ELSE Payloads(n - 1) \o (IF log[n].call = "write" /\ ~IsBulkCmd(log[n])
                             THEN log[n].data ELSE <<>>)

C28_PayloadsAreData ==
    op.name = "sendFile" =>
        /\ res.status = "ok"
        /\ Payloads(Len(log)) = op.data
        /\ \A i \in 1..Len(log) :
               IsBulkCmd(log[i]) =>
                   /\ i + 2 <= Len(log)
                   /\ log[i + 2].call = "write"
                   /\ ~IsBulkCmd(log[i + 2])
                   /\ Len(log[i + 2].data) = CmdLen(log[i])
        /\ SumLen(Len(Cmds)) = Len(op.data)

\* A buffer of three times the chunk size and seven bytes more.
C28_Witness ==
    /\ op.name = "sendFile"
    /\ Len(op.data) = 3 * MAX_PAYLOAD + 7
    /\ Len(Cmds) = 3 + Ceil(7, MAX_PAYLOAD)
    /\ Payloads(Len(log)) = op.data

(***************************************************************************)
(* C29.  No reading method flushes between the write of its command and    *)
(* the read of the reply: every read follows the write of its command at   *)
(* once.  The port is flushed only when the driver is constructed, by      *)
(* sendFile (inside _write) and by go.                                     *)
(***************************************************************************)
HasFlush == \E i \in 1..Len(log) : log[i].call = "flush"

C29_FlushOnlyInWrites ==
    /\ HasFlush => op.name \in {"__init__", "sendFile", "go"}
    /\ \A i \in 1..Len(log) :
           log[i].call = "read" =>
               /\ i > 1
               /\ log[i - 1].call = "write"
               /\ log[i - 1].data[Len(log[i - 1].data)] = Ord("LF")

\* receiveFile of two chunks whose replies arrived: write, read, write, read.
C29_Witness ==
    /\ op.name = "receiveFile"
    /\ op.length = MAX_PAYLOAD + 1
    /\ res.status = "ok"
    /\ Len(log) = 4
    /\ log[3].call = "write"
    /\ log[4].call = "read"
    /\ Len(log[4].data) = 1

(***************************************************************************)
(* C30.  Whatever the interleaving of the threads that construct module    *)
(* classes, at most one object is created per class; every constructor     *)
(* call that returns, returns that object, which is of the class it        *)
(* constructed (ModGPIO() never returns the ModFlash object, nor the       *)
(* reverse); and the lock is held only by a thread between its acquire and *)
(* its release, so it is free once every thread has left that section.     *)
(***************************************************************************)
InLockedSection(th) == sing.pc[th] \in {"check2", "create", "release"}

C30_SingletonOnce ==
    /\ \A c \in ModuleClasses : sing.created[c] <= 1
    /\ \A th \in Threads :
           (sing.pc[th] = "done" /\ sing.raised[th] = "ok") =>
               sing.ret[th] = [cls |-> sing.cls[th], n |-> 1]
    /\ \A th \in Threads : InLockedSection(th) <=> sing.lock = th
    /\ (\A th \in Threads : ~InLockedSection(th)) => sing.lock = 0

\* Two threads passed the outer check for ModGPIO before there was an
\* instance; the first has created it and returned, the second holds the
\* lock and is at the inner check.
C30_Witness ==
    /\ sing.cls[1] = "ModGPIO"
    /\ sing.cls[2] = "ModGPIO"
    /\ sing.pc[1] = "done"
    /\ sing.ret[1] = [cls |-> "ModGPIO", n |-> 1]
    /\ sing.pc[2] = "check2"
    /\ sing.lock = 2
    /\ sing.created["ModGPIO"] = 1

(***************************************************************************)
(* C21.  A port that was opened is closed on every exit path of the        *)
(* program: when the run has ended, after normal completion as well as     *)
(* after a driver call that ended with a timeout or an I/O error, the      *)
(* device is not open any more.                                            *)
(***************************************************************************)
C21_ClosedAtExit == main.phase = "done" => device # "open"

====
